---- MODULE Spec2Model ----
(***************************************************************************)
(* Babel HMAC packet authentication (babeld/babel_auth.c): the inbound     *)
(* checker, the outbound builder, the authentic neighbors memory (ANM),    *)
(* the per-interface TS/PC send counters and the statistics.               *)
(*                                                                         *)
(* Packets are byte sequences.  A 32-bit quantity (u_int32_t) and a        *)
(* time_t are pairs <<hi, lo>> standing for hi * 65536 + lo with           *)
(* lo \in 0..65535; a u_int32_t has hi \in 0..65535, a time_t may have a   *)
(* larger hi (64-bit time_t).                                              *)
(***************************************************************************)
EXTENDS Integers, Sequences, FiniteSets, TLC

(***************************************************************************)
(* Constants of headers that the source includes.                          *)
(***************************************************************************)
MESSAGE_PAD1 == 0
MESSAGE_TSPC == 11
MESSAGE_HMAC == 12
RTPROT_BABEL == 42
IPV6_MAX_BYTELEN == 16
HASH_SIZE_MAX == 32
\* babel_auth.h: the caps on the digests computed for a packet received and
\* on the HMAC TLVs appended to a packet sent, here small
BABEL_MAXDIGESTSIN == 2
BABEL_MAXDIGESTSOUT == 2
\* room for one TS/PC TLV and BABEL_MAXDIGESTSOUT HMAC TLVs
BABEL_MAXAUTHSPACE == 8 + BABEL_MAXDIGESTSOUT * (4 + HASH_SIZE_MAX)
HASH_HMAC_SHA1 == 1
HASH_HMAC_SHA256 == 2
MSG_OK == 0
MSG_NG == 1

BABEL_TS_BASE_ZERO == 0
BABEL_TS_BASE_UNIX == 1
BABEL_DEFAULT_TS_BASE == BABEL_TS_BASE_UNIX
BABEL_DEFAULT_ANM_TIMEOUT == <<0, 300>>

UINT16_MAX == 65535

\* hash_digest_length[]: digest size in bytes of each hash algorithm
hash_digest_length(algo) == IF algo = HASH_HMAC_SHA256 THEN 32 ELSE 20

(***************************************************************************)
(* Arithmetic on <<hi, lo>> pairs.                                         *)
(***************************************************************************)
Lt(a, b) == a[1] < b[1] \/ (a[1] = b[1] /\ a[2] < b[2])
Gt(a, b) == Lt(b, a)
Add(a, b) == <<a[1] + b[1] + ((a[2] + b[2]) \div (UINT16_MAX + 1)),
               (a[2] + b[2]) % (UINT16_MAX + 1)>>
\* conversion of a time_t or of a sum to u_int32_t
ToU32(a) == <<a[1] % (UINT16_MAX + 1), a[2]>>
\* ++x on a u_int32_t
U32Inc(a) == ToU32(Add(a, <<0, 1>>))
\* ++x on a u_int16_t
U16Inc(x) == (x + 1) % (UINT16_MAX + 1)

(***************************************************************************)
(* Byte sequences.                                                         *)
(***************************************************************************)
Zeros(n) == [i \in 1..n |-> 0]
PutW(w) == <<w \div 256, w % 256>>
PutL(l) == PutW(l[1]) \o PutW(l[2])
Replace(data, pos, bytes) ==
    [i \in 1..Len(data) |->
        IF i > pos /\ i <= pos + Len(bytes) THEN bytes[i - pos] ELSE data[i]]

(***************************************************************************)
(* lib/stream.h: a stream is [data, getp, endp]; Len(data) is its size.    *)
(* An access that would run out of bounds leaves the stream as it is and   *)
(* a getter then yields 0.                                                 *)
(***************************************************************************)
stream_new(size) == [data |-> Zeros(size), getp |-> 0, endp |-> 0]
STREAM_READABLE(s) == s.endp - s.getp
STREAM_WRITEABLE(s) == Len(s.data) - s.endp
stream_forward_getp(s, n) ==
    IF n >= 0 /\ s.getp + n <= s.endp THEN [s EXCEPT !.getp = @ + n] ELSE s
stream_set_getp(s, pos) ==
    IF pos <= s.endp THEN [s EXCEPT !.getp = pos] ELSE [s EXCEPT !.getp = s.endp]
stream_forward_endp(s, n) ==
    IF n >= 0 /\ s.endp + n <= Len(s.data) THEN [s EXCEPT !.endp = @ + n] ELSE s
\* stream_put (s, src, size): bytes = the size bytes written (zeros for src = NULL)
stream_put(s, bytes) ==
    IF STREAM_WRITEABLE(s) < Len(bytes) THEN s
    ELSE [s EXCEPT !.data = Replace(s.data, s.endp, bytes), !.endp = @ + Len(bytes)]
\* stream_put (s, NULL, n) with n a size_t: a negative n stands for the
\* wrapped-around (huge) size, which never fits
stream_put_zeros(s, n) == IF n < 0 THEN s ELSE stream_put(s, Zeros(n))
stream_getc_ok(s) == STREAM_READABLE(s) >= 1
stream_getc(s) == IF stream_getc_ok(s) THEN s.data[s.getp + 1] ELSE 0
stream_getc_adv(s) == IF stream_getc_ok(s) THEN [s EXCEPT !.getp = @ + 1] ELSE s
stream_getw_ok(s) == STREAM_READABLE(s) >= 2
stream_getw(s) ==
    IF stream_getw_ok(s) THEN s.data[s.getp + 1] * 256 + s.data[s.getp + 2] ELSE 0
stream_getw_adv(s) == IF stream_getw_ok(s) THEN [s EXCEPT !.getp = @ + 2] ELSE s
stream_getl_ok(s) == STREAM_READABLE(s) >= 4
stream_getl(s) ==
    IF stream_getl_ok(s)
    THEN <<s.data[s.getp + 1] * 256 + s.data[s.getp + 2],
           s.data[s.getp + 3] * 256 + s.data[s.getp + 4]>>
    ELSE <<0, 0>>
stream_getl_adv(s) == IF stream_getl_ok(s) THEN [s EXCEPT !.getp = @ + 4] ELSE s
stream_getw_from(s, from) ==
    IF from >= 0 /\ from + 2 <= s.endp
    THEN s.data[from + 1] * 256 + s.data[from + 2] ELSE 0
stream_getl_from(s, from) ==
    IF from >= 0 /\ from + 4 <= s.endp
    THEN <<s.data[from + 1] * 256 + s.data[from + 2],
           s.data[from + 3] * 256 + s.data[from + 4]>>
    ELSE <<0, 0>>
\* stream_new (len) followed by stream_put (s, input, len)
stream_of(bytes) == [data |-> bytes, getp |-> 0, endp |-> Len(bytes)]

(***************************************************************************)
(* lib/cryptohash.h hash_make_hmac(): a deterministic stand-in for the     *)
(* HMAC primitive.  The digest depends on the algorithm, on every byte of  *)
(* the key and on every byte of the message together with its position.    *)
(***************************************************************************)
RECURSIVE ByteSum(_, _, _)
ByteSum(bytes, lo, hi) ==
    IF lo > hi THEN 0
    ELSE IF lo = hi THEN bytes[lo]
    ELSE (ByteSum(bytes, lo, (lo + hi) \div 2)
          + ByteSum(bytes, (lo + hi) \div 2 + 1, hi)) % 256
RECURSIVE PosSum(_, _, _)
PosSum(bytes, lo, hi) ==
    IF lo > hi THEN 0
    ELSE IF lo = hi THEN ((lo % 251) * bytes[lo]) % 256
    ELSE (PosSum(bytes, lo, (lo + hi) \div 2)
          + PosSum(bytes, (lo + hi) \div 2 + 1, hi)) % 256
hash_make_hmac(algo, message, key) ==
    LET a == ByteSum(message, 1, Len(message))
        b == PosSum(message, 1, Len(message))
        k == ByteSum(key, 1, Len(key)) + 7 * PosSum(key, 1, Len(key))
    IN  [i \in 1..hash_digest_length(algo) |->
            IF i = 1 THEN (a + k + algo) % 256
            ELSE IF i = 2 THEN (b + 3 * k + Len(message)) % 256
            ELSE (a + b + k + i) % 256]

(***************************************************************************)
(* Configuration: link-local addresses, keychains (lib/keychain.h), and    *)
(* the babel interfaces with their CSA lists and authrxreq flags.          *)
(***************************************************************************)
ADDR1 == <<254, 128, 0, 0, 0, 0, 0, 0, 0, 0, 0, 0, 0, 0, 0, 1>>
ADDR2 == <<254, 128, 0, 0, 0, 0, 0, 0, 0, 0, 0, 0, 0, 0, 0, 2>>
NoAddr == <<>>

Key(index, string, send, accept) ==
    [index |-> index, string |-> string, send |-> send, accept |-> accept]
\* key strings are C strings: no zero byte
KEY1 == Key(1, <<97, 49>>, TRUE, TRUE)
KEY2 == Key(2, <<98, 50>>, TRUE, TRUE)
KEY3 == Key(3, <<99, 51>>, FALSE, TRUE)
KEY4 == Key(4, <<100, 52>>, FALSE, TRUE)
KEY10 == Key(10, <<120>>, TRUE, FALSE)
KEY11 == Key(11, <<121>>, TRUE, FALSE)
KEY12 == Key(12, <<122>>, TRUE, TRUE)
\* no longer valid for send
KEY20 == Key(20, <<113>>, FALSE, TRUE)
\* a key that is not yet valid for accept
KEY30 == Key(30, <<114>>, TRUE, FALSE)

\* keys that share the string, the key id or both with keys of kcA: key ids
\* are the indices modulo 2^16
KEY5 == Key(5, <<97, 49>>, TRUE, TRUE)
KEY65537 == Key(65537, <<97, 49>>, TRUE, TRUE)
KEY65538 == Key(65538, <<98>>, TRUE, TRUE)
KEY1F == Key(1, <<97, 50>>, TRUE, TRUE)

KeychainNames == {"kcA", "kcB", "kcD", "kcE", "kcF", "kcG"}
Keychains ==
    [n \in KeychainNames |->
        CASE n = "kcA" -> <<KEY1, KEY2, KEY3, KEY4>>
          [] n = "kcB" -> <<KEY10, KEY11, KEY12>>
          [] n = "kcD" -> <<KEY1, KEY5, KEY65537, KEY65538>>
          [] n = "kcE" -> <<KEY20>>
          [] n = "kcF" -> <<KEY1F, KEY2>>
          [] n = "kcG" -> <<KEY30>>]

\* keychain_lookup(): NULL is modelled by <<>> wrapped in a found flag
keychain_lookup(name) ==
    IF name \in KeychainNames THEN [found |-> TRUE, key |-> Keychains[name]]
    ELSE [found |-> FALSE, key |-> <<>>]

RECURSIVE FilterSeq(_, _)
FilterSeq(keys, send) ==
    IF keys = <<>> THEN <<>>
    ELSE (IF (IF send THEN Head(keys).send ELSE Head(keys).accept)
          THEN <<Head(keys)>> ELSE <<>>) \o FilterSeq(Tail(keys), send)
\* keys of a keychain that are valid at the time now
keys_valid_for_send(keychain, now) == FilterSeq(keychain.key, TRUE)
keys_valid_for_accept(keychain, now) == FilterSeq(keychain.key, FALSE)

Csa(name, algo) == [keychain_name |-> name, hash_algo |-> algo]
\* ifp->info of every babel interface (babel_interface.h)
Interfaces == 1..9
csalist(ifp) ==
    CASE ifp = 1 -> <<Csa("kcA", HASH_HMAC_SHA256)>>
      [] ifp = 2 -> <<Csa("kcA", HASH_HMAC_SHA256)>>
      [] ifp = 3 -> <<>>
      [] ifp = 4 -> <<Csa("kcB", HASH_HMAC_SHA256)>>
      [] ifp = 5 -> <<Csa("kcE", HASH_HMAC_SHA256), Csa("none", HASH_HMAC_SHA1)>>
      [] ifp = 6 -> <<Csa("kcA", HASH_HMAC_SHA256)>>
      [] ifp = 7 -> <<Csa("kcA", HASH_HMAC_SHA1), Csa("kcA", HASH_HMAC_SHA256)>>
      [] ifp = 8 -> <<Csa("kcG", HASH_HMAC_SHA256), Csa("none", HASH_HMAC_SHA1)>>
      [] ifp = 9 -> <<Csa("kcG", HASH_HMAC_SHA256), Csa("none", HASH_HMAC_SHA1)>>
authrxreq(ifp) == ifp \notin {2, 9}
\* the link-local IPv6 address that FOR_ALL_INTERFACES_ADDRESSES finds first
lladdr(ifp) == IF ifp = 6 THEN NoAddr ELSE IF ifp = 2 THEN ADDR2 ELSE ADDR1

\* takes every interface to have CSAs
no_csas_never(ifp) == FALSE
\* ! listcount (babel_ifp->csalist)
no_csas(ifp) == Len(csalist(ifp)) = 0

(***************************************************************************)
(* Effective security associations.                                        *)
(***************************************************************************)
\* compares the CSA counters first
babel_esa_item_cmp_minor(val1, val2) ==
    IF val1.sort_order_minor < val2.sort_order_minor THEN -1
    ELSE IF val1.sort_order_minor > val2.sort_order_minor THEN 1
    ELSE IF val1.sort_order_major < val2.sort_order_major THEN -1
    ELSE IF val1.sort_order_major > val2.sort_order_major THEN 1
    ELSE 0
babel_esa_item_cmp(val1, val2) ==
    IF val1.sort_order_major < val2.sort_order_major THEN -1
    ELSE IF val1.sort_order_major > val2.sort_order_major THEN 1
    ELSE IF val1.sort_order_minor < val2.sort_order_minor THEN -1
    ELSE IF val1.sort_order_minor > val2.sort_order_minor THEN 1
    ELSE 0

\* compares the algorithm and the key id only
babel_esa_item_exists_id(esalist, new_hash_algo, new_key_id, new_key_secret) ==
    \E i \in 1..Len(esalist) :
        /\ esalist[i].hash_algo = new_hash_algo
        /\ esalist[i].key_id = new_key_id
babel_esa_item_exists(esalist, new_hash_algo, new_key_id, new_key_secret) ==
    \E i \in 1..Len(esalist) :
        /\ esalist[i].hash_algo = new_hash_algo
        /\ esalist[i].key_id = new_key_id
        /\ Len(esalist[i].key_secret) = Len(new_key_secret)
        /\ esalist[i].key_secret = new_key_secret

\* lib/linklist.c listnode_add_sort(): before the first node that compares greater
RECURSIVE listnode_add_sort(_, _)
listnode_add_sort(list, val) ==
    IF list = <<>> THEN <<val>>
    ELSE IF babel_esa_item_cmp(val, Head(list)) < 0 THEN <<val>> \o list
    ELSE <<Head(list)>> \o listnode_add_sort(Tail(list), val)

\* the inner loop of babel_esalist_derive() over the filtered keys of one CSA
RECURSIVE EsaAddKeys(_, _, _, _, _)
EsaAddKeys(all_esas, csa, filtered_keys, key_counter, csa_counter) ==
    IF filtered_keys = <<>> THEN all_esas
    ELSE LET key == Head(filtered_keys)
             key_id == key.index % (UINT16_MAX + 1)
         IN  IF babel_esa_item_exists(all_esas, csa.hash_algo, key_id, key.string)
             THEN EsaAddKeys(all_esas, csa, Tail(filtered_keys), key_counter, csa_counter)
             ELSE EsaAddKeys(
                    listnode_add_sort(all_esas,
                        [sort_order_major |-> key_counter,
                         sort_order_minor |-> csa_counter,
                         hash_algo |-> csa.hash_algo,
                         key_id |-> key_id,
                         key_secret |-> key.string]),
                    csa, Tail(filtered_keys), key_counter + 1, csa_counter)

RECURSIVE EsaAddCsas(_, _, _, _, _)
EsaAddCsas(all_esas, csas, now, send, csa_counter) ==
    IF csas = <<>> THEN all_esas
    ELSE LET csa == Head(csas)
             keychain == keychain_lookup(csa.keychain_name)
         IN  IF ~keychain.found
             THEN EsaAddCsas(all_esas, Tail(csas), now, send, csa_counter)
             ELSE EsaAddCsas(
                    EsaAddKeys(all_esas, csa,
                        IF send THEN keys_valid_for_send(keychain, now)
                        ELSE keys_valid_for_accept(keychain, now),
                        0, csa_counter),
                    Tail(csas), now, send, csa_counter + 1)

\* filters the keys for accept whatever the direction
babel_esalist_derive_accept(csas, now, send) == EsaAddCsas(<<>>, csas, now, FALSE, 0)
\* send = TRUE: keychain_filter_func is keys_valid_for_send, else keys_valid_for_accept
babel_esalist_derive(csas, now, send) == EsaAddCsas(<<>>, csas, now, send, 0)

(***************************************************************************)
(* babel_auth_check_tspc(): the walk to the first TS/PC TLV.  The result   *)
(* is [ret, stat]: ret is the "getp" coordinate of the PC or -1, stat      *)
(* names the counter that the function increments ("" for none).           *)
(***************************************************************************)
\* compares the timestamps only
TspcFresh_ts(tlv_pc, tlv_ts, stor_pc, stor_ts) == ~Lt(tlv_ts, stor_ts)
\* accepts a TS/PC that equals the stored one
TspcFresh_equal(tlv_pc, tlv_ts, stor_pc, stor_ts) ==
    Gt(tlv_ts, stor_ts) \/ (tlv_ts = stor_ts /\ tlv_pc >= stor_pc)
\* the constraint check of the TS/PC TLV against the stored values
TspcFresh(tlv_pc, tlv_ts, stor_pc, stor_ts) ==
    Gt(tlv_ts, stor_ts) \/ (tlv_ts = stor_ts /\ tlv_pc > stor_pc)

\* goes on to the next TLV when a TS/PC TLV fails the constraint check
RECURSIVE TspcLoop_next(_, _, _)
TspcLoop_next(s, stor_pc, stor_ts) ==
    IF STREAM_READABLE(s) <= 0
    THEN [ret |-> -1, stat |-> "auth_recv_ng_no_tspc"]
    ELSE IF stream_getc(s) = MESSAGE_PAD1
    THEN TspcLoop_next(stream_getc_adv(s), stor_pc, stor_ts)
    ELSE IF stream_getc(s) = MESSAGE_TSPC
            /\ TspcFresh(stream_getw(stream_forward_getp(s, 2)),
                         stream_getl(stream_forward_getp(s, 4)), stor_pc, stor_ts)
    THEN [ret |-> s.getp + 2, stat |-> ""]
    ELSE TspcLoop_next(stream_forward_getp(stream_forward_getp(s, 2),
                                           stream_getc(stream_getc_adv(s))),
                       stor_pc, stor_ts)
RECURSIVE TspcLoop(_, _, _)
TspcLoop(s, stor_pc, stor_ts) ==
    IF STREAM_READABLE(s) <= 0
    THEN [ret |-> -1, stat |-> "auth_recv_ng_no_tspc"]
    ELSE LET tlv_type == stream_getc(s)
             s1 == stream_getc_adv(s)
             tlv_length == stream_getc(s1)
             s2 == stream_getc_adv(s1)
             tlv_pc == stream_getw(s2)
             s3 == stream_getw_adv(s2)
             tlv_ts == stream_getl(s3)
             s4 == stream_getl_adv(s3)
         IN  IF tlv_type = MESSAGE_PAD1 THEN TspcLoop(s1, stor_pc, stor_ts)
             ELSE IF tlv_type # MESSAGE_TSPC
             THEN TspcLoop(stream_forward_getp(s2, tlv_length), stor_pc, stor_ts)
             ELSE IF TspcFresh(tlv_pc, tlv_ts, stor_pc, stor_ts)
             THEN [ret |-> s4.getp - 6, stat |-> ""]
             ELSE [ret |-> -1, stat |-> "auth_recv_ng_tspc"]

\* takes the stored TS/PC for (0, 0)
babel_auth_check_tspc_unstored(packet, stor_pc, stor_ts) ==
    TspcLoop(stream_set_getp(packet, 4), 0, <<0, 0>>)
\* lets a packet without a TS/PC TLV pass
babel_auth_check_tspc_absent(packet, stor_pc, stor_ts) ==
    IF TspcLoop(stream_set_getp(packet, 4), stor_pc, stor_ts).stat = "auth_recv_ng_no_tspc"
    THEN [ret |-> 4, stat |-> ""]
    ELSE TspcLoop(stream_set_getp(packet, 4), stor_pc, stor_ts)
babel_auth_check_tspc(packet, stor_pc, stor_ts) ==
    TspcLoop(stream_set_getp(packet, 4), stor_pc, stor_ts)

(***************************************************************************)
(* babel_auth_pad_packet(): [padded, packet] after the loop; the function  *)
(* ends with assert (stream_get_endp (packet) == stream_get_endp (padded)).*)
(***************************************************************************)
\* counts the two bytes of the key id among the bytes to fill with zeros
RECURSIVE PadLoop_long(_, _, _)
PadLoop_long(packet, padded, addr6) ==
    IF STREAM_READABLE(packet) <= 0 THEN [packet |-> packet, padded |-> padded]
    ELSE LET tlv_type == stream_getc(packet)
             p1 == stream_getc_adv(packet)
             d1 == stream_forward_endp(padded, 1)
             tlv_length == stream_getc(p1)
             p2 == stream_getc_adv(p1)
             d2 == stream_forward_endp(d1, 1)
             d3 == IF tlv_type # MESSAGE_HMAC
                   THEN stream_forward_endp(d2, tlv_length)
                   ELSE stream_put_zeros(
                            stream_put(stream_forward_endp(d2, 2), addr6),
                            tlv_length - IPV6_MAX_BYTELEN)
         IN  IF tlv_type = MESSAGE_PAD1 THEN PadLoop_long(p1, d1, addr6)
             ELSE PadLoop_long(stream_forward_getp(p2, tlv_length), d3, addr6)
RECURSIVE PadLoop(_, _, _)
PadLoop(packet, padded, addr6) ==
    IF STREAM_READABLE(packet) <= 0 THEN [packet |-> packet, padded |-> padded]
    ELSE LET tlv_type == stream_getc(packet)
             p1 == stream_getc_adv(packet)
             d1 == stream_forward_endp(padded, 1)
             tlv_length == stream_getc(p1)
             p2 == stream_getc_adv(p1)
             d2 == stream_forward_endp(d1, 1)
             d3 == IF tlv_type # MESSAGE_HMAC
                   THEN stream_forward_endp(d2, tlv_length)
                   ELSE stream_put_zeros(
                            stream_put(stream_forward_endp(d2, 2), addr6),
                            tlv_length - IPV6_MAX_BYTELEN - 2)
         IN  IF tlv_type = MESSAGE_PAD1 THEN PadLoop(p1, d1, addr6)
             ELSE PadLoop(stream_forward_getp(p2, tlv_length), d3, addr6)

\* pads with zeros only
babel_auth_pad_packet_zeros(packet, addr6) ==
    PadLoop(stream_set_getp(packet, 4),
            stream_forward_endp([packet EXCEPT !.getp = 0, !.endp = 0], 4),
            Zeros(IPV6_MAX_BYTELEN))
babel_auth_pad_packet(packet, addr6) ==
    PadLoop(stream_set_getp(packet, 4),
            stream_forward_endp([packet EXCEPT !.getp = 0, !.endp = 0], 4),
            addr6)
\* the assertion that ends babel_auth_pad_packet()
PadAssertion(r) == r.packet.endp = r.padded.endp

(***************************************************************************)
(* babel_auth_try_hmac_tlvs().  calls lists the ESAs of the invocations of *)
(* hash_make_hmac() made for the packet so far, herr is the set of         *)
(* invocations (by number) for which the primitive reports an error, and   *)
(* overread is the outcome of a memcmp() that reads past the end of the    *)
(* packet buffer.  The result is [result, done, calls, errs]: errs is the  *)
(* number of increments of internal_err.                                   *)
(***************************************************************************)
RECURSIVE HmacLoop(_, _, _, _, _, _, _, _)
HmacLoop(s, padded, esa, done, calls, got_local_digest, herr, overread) ==
    IF STREAM_READABLE(s) <= 0
    THEN [result |-> MSG_NG, done |-> done, calls |-> calls, errs |-> 0]
    ELSE LET tlv_type == stream_getc(s)
             s1 == stream_getc_adv(s)
             tlv_length == stream_getc(s1)
             s2 == stream_getc_adv(s1)
             tlv_key_id == stream_getw(s2)
             s3 == stream_getw_adv(s2)
             compute == ~got_local_digest
             hash_err == compute /\ (Len(calls) + 1) \in herr
             local_digest ==
                 hash_make_hmac(esa.hash_algo, SubSeq(padded.data, 1, padded.endp),
                                esa.key_secret)
             calls1 == IF compute THEN Append(calls, esa) ELSE calls
             done1 == IF compute THEN done + 1 ELSE done
             matches ==
                 IF s3.getp + tlv_length - 2 <= Len(s3.data)
                 THEN SubSeq(s3.data, s3.getp + 1, s3.getp + tlv_length - 2) = local_digest
                 ELSE overread
         IN  IF tlv_type = MESSAGE_PAD1
             THEN HmacLoop(s1, padded, esa, done, calls, got_local_digest, herr, overread)
             ELSE IF tlv_type # MESSAGE_HMAC
                     \/ tlv_length # hash_digest_length(esa.hash_algo) + 2
             THEN HmacLoop(stream_forward_getp(s2, tlv_length), padded, esa, done, calls,
                           got_local_digest, herr, overread)
             ELSE IF tlv_key_id # esa.key_id
             THEN HmacLoop(stream_forward_getp(s3, tlv_length - 2), padded, esa, done,
                           calls, got_local_digest, herr, overread)
             ELSE IF hash_err
             THEN [result |-> MSG_NG, done |-> done, calls |-> calls1, errs |-> 1]
             ELSE IF matches
             THEN [result |-> MSG_OK, done |-> done1, calls |-> calls1, errs |-> 0]
             ELSE HmacLoop(stream_forward_getp(s3, tlv_length - 2), padded, esa, done1,
                           calls1, TRUE, herr, overread)

\* counts a digest for every ESA that it tries
babel_auth_try_hmac_tlvs_charged(packet, padded, esa, done, calls, herr, overread) ==
    IF done = BABEL_MAXDIGESTSIN
    THEN [result |-> MSG_NG, done |-> done, calls |-> calls, errs |-> 0]
    ELSE [HmacLoop(stream_set_getp(packet, 4), padded, esa, done, calls, FALSE, herr,
                   overread) EXCEPT !.done = done + 1]
\* does not look at the number of digests computed
babel_auth_try_hmac_tlvs_uncapped(packet, padded, esa, done, calls, herr, overread) ==
    HmacLoop(stream_set_getp(packet, 4), padded, esa, done, calls, FALSE, herr, overread)
babel_auth_try_hmac_tlvs(packet, padded, esa, done, calls, herr, overread) ==
    IF done = BABEL_MAXDIGESTSIN
    THEN [result |-> MSG_NG, done |-> done, calls |-> calls, errs |-> 0]
    ELSE HmacLoop(stream_set_getp(packet, 4), padded, esa, done, calls, FALSE, herr,
                  overread)

\* the loop of babel_auth_check_packet() over the ESA list
RECURSIVE EsaLoop(_, _, _, _, _, _, _, _)
EsaLoop(esalist, packet, padded, done, calls, errs, herr, overread) ==
    IF esalist = <<>>
    THEN [result |-> MSG_NG, done |-> done, calls |-> calls, errs |-> errs]
    ELSE LET r == babel_auth_try_hmac_tlvs(packet, padded, Head(esalist), done, calls,
                                           herr, overread)
         IN  IF r.result = MSG_OK \/ Tail(esalist) = <<>>
             THEN [r EXCEPT !.errs = @ + errs]
             ELSE EsaLoop(Tail(esalist), packet, padded, r.done, r.calls, errs + r.errs,
                          herr, overread)

(***************************************************************************)
(* Authentic neighbors memory: a list of records.                          *)
(***************************************************************************)
\* index of the first record for the address, whatever its interface
babel_anm_lookup_addr(anm, address, ifp) ==
    IF \E i \in 1..Len(anm) : anm[i].address = address
    THEN CHOOSE i \in 1..Len(anm) :
            /\ anm[i].address = address
            /\ \A j \in 1..(i - 1) : anm[j].address # address
    ELSE 0
\* looks at the head of the list only
babel_anm_lookup_head(anm, address, ifp) ==
    IF anm # <<>> /\ Head(anm).address = address /\ Head(anm).ifp = ifp THEN 1 ELSE 0
\* index of the first record for (address, ifp), 0 for NULL
babel_anm_lookup(anm, address, ifp) ==
    IF \E i \in 1..Len(anm) : anm[i].address = address /\ anm[i].ifp = ifp
    THEN CHOOSE i \in 1..Len(anm) :
            /\ anm[i].address = address /\ anm[i].ifp = ifp
            /\ \A j \in 1..(i - 1) : ~(anm[j].address = address /\ anm[j].ifp = ifp)
    ELSE 0

\* creates a record even when one exists
babel_anm_get_always(anm, address, ifp) ==
    Append(anm, [address |-> address, ifp |-> ifp, last_recv |-> <<0, 0>>,
                 last_pc |-> 0, last_ts |-> <<0, 0>>])
\* the list after babel_anm_get(): a zeroed record is appended when none exists
babel_anm_get(anm, address, ifp) ==
    IF babel_anm_lookup(anm, address, ifp) # 0 THEN anm
    ELSE Append(anm, [address |-> address, ifp |-> ifp, last_recv |-> <<0, 0>>,
                      last_pc |-> 0, last_ts |-> <<0, 0>>])

(***************************************************************************)
(* Statistics: struct babel_auth_stats.                                    *)
(***************************************************************************)
StatNames == {"plain_recv", "plain_sent", "auth_sent", "auth_sent_ng_nokeys",
              "auth_recv_ok", "auth_recv_ng_nokeys", "auth_recv_ng_no_tspc",
              "auth_recv_ng_tspc", "auth_recv_ng_hmac", "internal_err"}
NoStats == [n \in StatNames |-> 0]
Bump(st, name, by) == IF name \in StatNames THEN [st EXCEPT ![name] = @ + by] ELSE st
AddStats(st, inc) == [n \in StatNames |-> st[n] + inc[n]]
\* counts internal errors in the global record only
count_if_stats_noerr(if_stats, ifp, inc) ==
    [if_stats EXCEPT ![ifp] = AddStats(@, [inc EXCEPT !["internal_err"] = 0])]
\* the increments of if_stats-> and babel_ifp->auth_stats
count_if_stats(if_stats, ifp, inc) == [if_stats EXCEPT ![ifp] = AddStats(@, inc)]

(***************************************************************************)
(* Packets of a peer: the inputs of the inbound checker.  A peer that      *)
(* holds a key builds its packet the way babel_auth_make_packet() does     *)
(* (placeholders, digest of the padded image); wrong stands for a digest   *)
(* field that differs from the digest of the padded packet.                *)
(***************************************************************************)
TlvTspc(pc, ts) == <<MESSAGE_TSPC, 6>> \o PutW(pc) \o PutL(ts)
TlvHmac(key_id, digest) == <<MESSAGE_HMAC, 2 + Len(digest)>> \o PutW(key_id) \o digest
Placeholder(addr, algo) == addr \o Zeros(hash_digest_length(algo) - IPV6_MAX_BYTELEN)
Header(body) == <<RTPROT_BABEL, 2>> \o PutW(Len(body))
Wrong(digest) == [digest EXCEPT ![1] = (@ + 1) % 256]

\* an HMAC TLV descriptor: the key, the algorithm, and whether the digest is right
H(key, algo, good) == [key |-> key, algo |-> algo, good |-> good]

RECURSIVE HmacTlvs(_, _, _)
HmacTlvs(hs, addr, image) ==
    IF hs = <<>> THEN <<>>
    ELSE LET h == Head(hs)
             d == IF image = <<>> THEN Placeholder(addr, h.algo)
                  ELSE IF h.good THEN hash_make_hmac(h.algo, image, h.key.string)
                  ELSE Wrong(hash_make_hmac(h.algo, image, h.key.string))
         IN  TlvHmac(h.key.index % (UINT16_MAX + 1), d) \o HmacTlvs(Tail(hs), addr, image)

\* a packet: the header with the length of the TLVs, body, then the HMAC TLVs
Framed(body, tlvs) == Header(body \o tlvs) \o body \o tlvs
\* the packet of a peer at addr with the digests of the image filled in
Digested(addr, body, hs, image) == Framed(body, HmacTlvs(hs, addr, image))
\* the packet of a peer at addr: body, then the HMAC TLVs hs
PeerPacket(addr, body, hs) ==
    Digested(addr, body, hs, Framed(body, HmacTlvs(hs, addr, <<>>)))

T100 == <<0, 100>>
T101 == <<0, 101>>
T400 == <<0, 400>>

PK_S2 == PeerPacket(ADDR1, TlvTspc(5, T100), <<H(KEY1, HASH_HMAC_SHA256, TRUE)>>)
PK_S4 == PeerPacket(ADDR1, TlvTspc(6, T100), <<H(KEY1, HASH_HMAC_SHA256, TRUE)>>)
PK_TS == PeerPacket(ADDR1, TlvTspc(0, T101), <<H(KEY2, HASH_HMAC_SHA256, TRUE)>>)
PK_BAD == PeerPacket(ADDR1, TlvTspc(7, T101), <<H(KEY1, HASH_HMAC_SHA256, FALSE)>>)
PK_NOTSPC == PeerPacket(ADDR1, <<4, 1, 0>>, <<H(KEY1, HASH_HMAC_SHA256, TRUE)>>)
\* a packet of the peer at ADDR2
PK_A2 == PeerPacket(ADDR2, TlvTspc(3, T100), <<H(KEY1, HASH_HMAC_SHA256, TRUE)>>)
\* an HMAC TLV of length 10 (below 18) at the end of the packet
PK_SHORT == Framed(TlvTspc(9, T101), TlvHmac(1, Zeros(8)))
\* a TLV of an unknown type whose length runs past the end of the packet
PK_TRUNC == Framed(<<4, 9, 0, 0>>, <<>>)

\* keys of kcA that are valid for accept, in the order of the keychain
StuffKeys == <<KEY1, KEY2, KEY3, KEY4>>
\* BABEL_MAXDIGESTSIN + 1 HMAC TLVs with wrong digests, each for an ESA of its own
PK_STUFF == PeerPacket(ADDR1, TlvTspc(5, T100),
                       [i \in 1..(BABEL_MAXDIGESTSIN + 1) |->
                           H(StuffKeys[i], HASH_HMAC_SHA256, FALSE)])
\* BABEL_MAXDIGESTSIN + 1 HMAC TLVs with wrong digests, all for the same ESA
PK_SAME == PeerPacket(ADDR1, TlvTspc(5, T100),
                      [i \in 1..(BABEL_MAXDIGESTSIN + 1) |->
                          H(KEY1, HASH_HMAC_SHA256, FALSE)])
\* the right digest comes after BABEL_MAXDIGESTSIN wrong ones
PK_LATE == PeerPacket(ADDR1, TlvTspc(5, T100),
                      [i \in 1..(BABEL_MAXDIGESTSIN + 1) |->
                          H(StuffKeys[i], HASH_HMAC_SHA256, i = BABEL_MAXDIGESTSIN + 1)])
\* the right digest is the second one
PK_TWO == PeerPacket(ADDR1, TlvTspc(5, T100),
                     <<H(KEY1, HASH_HMAC_SHA256, FALSE), H(KEY2, HASH_HMAC_SHA256, TRUE)>>)
\* the only HMAC TLV is for the last of these keys
PK_SKIP == PeerPacket(ADDR1, TlvTspc(5, T100),
                      <<H(StuffKeys[Len(StuffKeys)], HASH_HMAC_SHA256, TRUE)>>)
\* the first packet of a peer that has restarted with the TS base "zero"
PK_RESTART == PeerPacket(ADDR1, TlvTspc(1, <<0, 0>>), <<H(KEY1, HASH_HMAC_SHA256, TRUE)>>)
\* two TS/PC TLVs: the greater pair first, and the smaller pair first
PK_HILO == PeerPacket(ADDR1, TlvTspc(7, T101) \o TlvTspc(1, T100),
                      <<H(KEY1, HASH_HMAC_SHA256, TRUE)>>)
PK_LOHI == PeerPacket(ADDR1, TlvTspc(1, T100) \o TlvTspc(7, T101),
                      <<H(KEY1, HASH_HMAC_SHA256, TRUE)>>)

Packets == {PK_S2, PK_S4, PK_TS, PK_BAD, PK_NOTSPC, PK_SHORT, PK_TRUNC}
WorkPackets == {PK_S2, PK_STUFF, PK_SAME, PK_LATE, PK_TWO, PK_HILO, PK_LOHI, PK_SKIP}
\* the invocations of hash_make_hmac() that fail: none, the first, all
AllCalls == 1..Len(StuffKeys)
HerrSets == {{}, {1}, AllCalls}

(***************************************************************************)
(* The part of babel_auth_check_packet() from the padding to the end of    *)
(* the loop over the ESA list: [pad_ok, nokeys, r].  It reads no variable  *)
(* of the routing process, so its value for the arrivals that the          *)
(* specifications enumerate is tabulated once.                             *)
(***************************************************************************)
auth_phase(ifp, from, input, now, herr, overread) ==
    LET packet == stream_of(input)
        pad == babel_auth_pad_packet(packet, from)
        esalist == babel_esalist_derive(csalist(ifp), now, FALSE)
    IN  [pad_ok |-> PadAssertion(pad),
         nokeys |-> IF Len(esalist) = 0 THEN 1 ELSE 0,
         r |-> IF PadAssertion(pad)
               THEN EsaLoop(esalist, packet, pad.padded, 0, <<>>, 0, herr, overread)
               ELSE [result |-> MSG_NG, done |-> 0, calls |-> <<>>, errs |-> 0]]

SenderSeq == <<ADDR1, ADDR2>>
PacketSeq == <<PK_S2, PK_S4, PK_TS, PK_BAD, PK_NOTSPC, PK_SHORT, PK_TRUNC,
               PK_STUFF, PK_SAME, PK_LATE, PK_TWO, PK_A2, PK_HILO, PK_LOHI, PK_SKIP,
               PK_RESTART>>
HerrSeq == <<{}, {1}, AllCalls>>
IndexOf(seq, x) == IF \E i \in 1..Len(seq) : seq[i] = x
                   THEN CHOOSE i \in 1..Len(seq) : seq[i] = x ELSE 0
AuthPhaseTable ==
    [ifp \in 1..Cardinality(Interfaces) |->
        [f \in 1..Len(SenderSeq) |->
            [k \in 1..Len(PacketSeq) |->
                [h \in 1..Len(HerrSeq) |->
                    auth_phase(ifp, SenderSeq[f], PacketSeq[k], <<0, 0>>, HerrSeq[h],
                               FALSE)]]]]
Tabulated(ifp, from, input, herr, overread) ==
    /\ ~overread /\ IndexOf(HerrSeq, herr) # 0
    /\ IndexOf(SenderSeq, from) # 0 /\ IndexOf(PacketSeq, input) # 0

(***************************************************************************)
(* babel_auth_check_packet().  The result is                               *)
(*   [aborted, ret, verdict, inc, anm, calls, done]                        *)
(* rxreq is babel_ifp->authrxreq.                                          *)
(* aborted: the assertion of the padder failed; ret: the value returned;   *)
(* verdict: "plain", "no_tspc", "tspc", "hmac" or "ok"; inc: the           *)
(* increments applied to both statistics records; anm: the ANM afterwards. *)
(***************************************************************************)
\* neigh_pc and neigh_ts: the stored TS/PC of the sender, (0, 0) without a record
neigh(anm, from, ifp) ==
    IF babel_anm_lookup(anm, from, ifp) # 0
    THEN [pc |-> anm[babel_anm_lookup(anm, from, ifp)].last_pc,
          ts |-> anm[babel_anm_lookup(anm, from, ifp)].last_ts]
    ELSE [pc |-> 0, ts |-> <<0, 0>>]
phase(ifp, from, input, now, herr, overread) ==
    IF Tabulated(ifp, from, input, herr, overread)
    THEN AuthPhaseTable[ifp][IndexOf(SenderSeq, from)][IndexOf(PacketSeq, input)]
                        [IndexOf(HerrSeq, herr)]
    ELSE auth_phase(ifp, from, input, now, herr, overread)
\* the outcome, given tspc, the result of babel_auth_check_tspc(), and ph, the
\* result of the authentication phase
check_outcome(ifp, rxreq, from, packet, anm, now, tspc, ph) ==
    LET got == babel_anm_get(anm, from, ifp)
        at == babel_anm_lookup(got, from, ifp)
        base == [aborted |-> FALSE, ret |-> MSG_OK, verdict |-> "plain", inc |-> NoStats,
                 anm |-> anm, calls |-> <<>>, done |-> 0]
    IN  IF no_csas(ifp)
        THEN [base EXCEPT !.inc = Bump(NoStats, "plain_recv", 1)]
        ELSE IF tspc.ret = -1
        THEN [base EXCEPT !.ret = IF rxreq THEN MSG_NG ELSE MSG_OK,
                          !.verdict = IF tspc.stat = "auth_recv_ng_tspc"
                                      THEN "tspc" ELSE "no_tspc",
                          !.inc = Bump(NoStats, tspc.stat, 1)]
        ELSE IF ~ph.pad_ok
        THEN [base EXCEPT !.aborted = TRUE, !.verdict = "abort"]
        ELSE IF ph.r.result # MSG_OK
        THEN [base EXCEPT !.ret = IF rxreq THEN ph.r.result ELSE MSG_OK,
                          !.verdict = "hmac",
                          !.inc = Bump(Bump(Bump(NoStats, "auth_recv_ng_nokeys", ph.nokeys),
                                            "internal_err", ph.r.errs),
                                       "auth_recv_ng_hmac", 1),
                          !.calls = ph.r.calls, !.done = ph.r.done]
        ELSE [base EXCEPT !.ret = IF rxreq THEN ph.r.result ELSE MSG_OK,
                          !.verdict = "ok",
                          !.inc = Bump(Bump(NoStats, "internal_err", ph.r.errs),
                                       "auth_recv_ok", 1),
                          !.anm = [got EXCEPT
                                     ![at].last_pc = stream_getw_from(packet, tspc.ret),
                                     ![at].last_ts = stream_getl_from(packet, tspc.ret + 2),
                                     ![at].last_recv = now],
                          !.calls = ph.r.calls, !.done = ph.r.done]
check_packet(ifp, rxreq, from, input, anm, now, herr, overread) ==
    check_outcome(ifp, rxreq, from, stream_of(input), anm, now,
                  babel_auth_check_tspc(stream_of(input), neigh(anm, from, ifp).pc,
                                        neigh(anm, from, ifp).ts),
                  phase(ifp, from, input, now, herr, overread))

babel_auth_check_packet(ifp, from, input, anm, now, herr, overread) ==
    check_packet(ifp, authrxreq(ifp), from, input, anm, now, herr, overread)

(***************************************************************************)
(* babel_auth_bump_tspc(): the (auth_timestamp, auth_packetcounter) after  *)
(* the call.  now is a time_t, auth_timestamp a u_int32_t.                 *)
(***************************************************************************)
\* restarts the packet counter also when the clock equals the timestamp
babel_auth_bump_tspc_restart(base, auth_timestamp, auth_packetcounter, now) ==
    IF base = BABEL_TS_BASE_UNIX /\ ~Lt(now, auth_timestamp)
    THEN [ts |-> ToU32(now), pc |-> 0]
    ELSE [ts |-> IF U16Inc(auth_packetcounter) = 0
                 THEN U32Inc(auth_timestamp) ELSE auth_timestamp,
          pc |-> U16Inc(auth_packetcounter)]
\* leaves the switch after the UNIX case
babel_auth_bump_tspc_break(base, auth_timestamp, auth_packetcounter, now) ==
    IF base = BABEL_TS_BASE_UNIX
    THEN IF Gt(now, auth_timestamp)
         THEN [ts |-> ToU32(now), pc |-> 0]
         ELSE [ts |-> auth_timestamp, pc |-> auth_packetcounter]
    ELSE [ts |-> IF U16Inc(auth_packetcounter) = 0
                 THEN U32Inc(auth_timestamp) ELSE auth_timestamp,
          pc |-> U16Inc(auth_packetcounter)]
babel_auth_bump_tspc(base, auth_timestamp, auth_packetcounter, now) ==
    IF base = BABEL_TS_BASE_UNIX /\ Gt(now, auth_timestamp)
    THEN [ts |-> ToU32(now), pc |-> 0]
    ELSE IF base = BABEL_TS_BASE_UNIX \/ base = BABEL_TS_BASE_ZERO
    THEN [ts |-> IF U16Inc(auth_packetcounter) = 0
                 THEN U32Inc(auth_timestamp) ELSE auth_timestamp,
          pc |-> U16Inc(auth_packetcounter)]
    ELSE [ts |-> auth_timestamp, pc |-> auth_packetcounter]

\* finds an address on every interface
babel_auth_got_source_address_any(ifp) == TRUE
\* babel_auth_got_source_address(): 1 when the interface has a link-local address
babel_auth_got_source_address(ifp) == lladdr(ifp) # NoAddr

(***************************************************************************)
(* babel_auth_make_packet().                                               *)
(***************************************************************************)
\* writes the digest length where the TLV length belongs
RECURSIVE MakePlaceholders_short(_, _, _, _)
MakePlaceholders_short(esalist, packet, digest_offset, sourceaddr) ==
    IF esalist = <<>> THEN [packet |-> packet, digest_offset |-> digest_offset]
    ELSE LET esa == Head(esalist)
             p1 == stream_put(packet, <<MESSAGE_HMAC>>)
             p2 == stream_put(p1, <<hash_digest_length(esa.hash_algo)>>)
             p3 == stream_put(p2, PutW(esa.key_id))
             p4 == stream_put(p3, sourceaddr)
             p5 == stream_put_zeros(p4, hash_digest_length(esa.hash_algo)
                                        - IPV6_MAX_BYTELEN)
             offs == Append(digest_offset, p3.endp)
         IN  IF Len(offs) = BABEL_MAXDIGESTSOUT
             THEN [packet |-> p5, digest_offset |-> offs]
             ELSE MakePlaceholders_short(Tail(esalist), p5, offs, sourceaddr)
\* the first loop: placeholder HMAC TLVs; [packet, digest_offset, hmacs_done]
RECURSIVE MakePlaceholders(_, _, _, _)
MakePlaceholders(esalist, packet, digest_offset, sourceaddr) ==
    IF esalist = <<>> THEN [packet |-> packet, digest_offset |-> digest_offset]
    ELSE LET esa == Head(esalist)
             p1 == stream_put(packet, <<MESSAGE_HMAC>>)
             p2 == stream_put(p1, <<2 + hash_digest_length(esa.hash_algo)>>)
             p3 == stream_put(p2, PutW(esa.key_id))
             p4 == stream_put(p3, sourceaddr)
             p5 == stream_put_zeros(p4, hash_digest_length(esa.hash_algo)
                                        - IPV6_MAX_BYTELEN)
             offs == Append(digest_offset, p3.endp)
         IN  IF Len(offs) = BABEL_MAXDIGESTSOUT
             THEN [packet |-> p5, digest_offset |-> offs]
             ELSE MakePlaceholders(Tail(esalist), p5, offs, sourceaddr)

\* the second loop: fill in the digests; [packet, failed]
RECURSIVE MakeDigests(_, _, _, _, _, _)
MakeDigests(esalist, packet, padded, digest_offset, hmacs_done, herr) ==
    IF esalist = <<>> THEN [packet |-> packet, failed |-> FALSE]
    ELSE LET esa == Head(esalist)
             digest == hash_make_hmac(esa.hash_algo,
                                      SubSeq(padded.data, 1, padded.endp),
                                      esa.key_secret)
             filled == [packet EXCEPT
                          !.data = Replace(@, digest_offset[hmacs_done + 1], digest)]
         IN  IF (hmacs_done + 1) \in herr
             THEN [packet |-> packet, failed |-> TRUE]
             ELSE IF hmacs_done + 1 = BABEL_MAXDIGESTSOUT
             THEN [packet |-> filled, failed |-> FALSE]
             ELSE MakeDigests(Tail(esalist), filled, padded, digest_offset,
                              hmacs_done + 1, herr)

\* The result is [ret, body, inc, ts, pc]: ret the length returned, body the
\* caller's buffer afterwards (body_len + BABEL_MAXAUTHSPACE bytes), inc the
\* increments of both statistics records, (ts, pc) the send counters afterwards.
babel_auth_make_packet(ifp, body, body_len, base, auth_timestamp, auth_packetcounter, now, herr) ==
    LET sourceaddr == lladdr(ifp)
        esalist == babel_esalist_derive(csalist(ifp), now, TRUE)
        nokeys == IF Len(esalist) = 0 THEN 1 ELSE 0
        s0 == stream_new(4 + body_len + BABEL_MAXAUTHSPACE)
        s1 == stream_put(stream_put(stream_put(s0, <<RTPROT_BABEL>>), <<2>>), PutW(0))
        s2 == stream_put(s1, SubSeq(body, 1, body_len))
        bumped == babel_auth_bump_tspc(base, auth_timestamp, auth_packetcounter, now)
        s3 == stream_put(stream_put(s2, <<MESSAGE_TSPC>>), <<6>>)
        s4 == stream_put(stream_put(s3, PutW(bumped.pc)), PutL(bumped.ts))
        ph == MakePlaceholders(esalist, s4, <<>>, sourceaddr)
        new_body_len == ph.packet.endp - 4
        s5 == [ph.packet EXCEPT !.data = Replace(@, 2, PutW(new_body_len))]
        padded == s5
        dg == MakeDigests(esalist, s5, padded, ph.digest_offset, 0, herr)
        unchanged == [ret |-> body_len, body |-> body, inc |-> NoStats,
                      ts |-> auth_timestamp, pc |-> auth_packetcounter]
    IN  IF no_csas(ifp)
        THEN [unchanged EXCEPT !.inc = Bump(NoStats, "plain_sent", 1)]
        ELSE IF ~babel_auth_got_source_address(ifp)
        THEN [unchanged EXCEPT !.inc = Bump(NoStats, "internal_err", 1)]
        ELSE IF dg.failed
        THEN [unchanged EXCEPT
                !.inc = Bump(Bump(NoStats, "auth_sent_ng_nokeys", nokeys),
                             "internal_err", 1),
                !.ts = bumped.ts, !.pc = bumped.pc]
        ELSE [ret |-> new_body_len,
              body |-> Replace(body, body_len,
                               SubSeq(dg.packet.data, 4 + body_len + 1, 4 + new_body_len)),
              inc |-> Bump(Bump(NoStats, "auth_sent_ng_nokeys", nokeys), "auth_sent", 1),
              ts |-> bumped.ts, pc |-> bumped.pc]

(***************************************************************************)
(* What a packet says, read off its bytes TLV by TLV: the sequence of      *)
(* [type, len, value] of the TLVs that lie wholly inside the packet (a     *)
(* PAD1 is the one byte of its type).                                      *)
(***************************************************************************)
RECURSIVE TlvWalk(_, _)
TlvWalk(bytes, i) ==
    IF i >= Len(bytes) THEN <<>>
    ELSE IF bytes[i + 1] = MESSAGE_PAD1
    THEN <<[type |-> MESSAGE_PAD1, len |-> 0, value |-> <<>>]>> \o TlvWalk(bytes, i + 1)
    ELSE IF i + 2 > Len(bytes) THEN <<>>
    ELSE IF i + 2 + bytes[i + 2] > Len(bytes) THEN <<>>
    ELSE <<[type |-> bytes[i + 1], len |-> bytes[i + 2],
            value |-> SubSeq(bytes, i + 3, i + 2 + bytes[i + 2])]>>
         \o TlvWalk(bytes, i + 2 + bytes[i + 2])

Tlvs(input) == TlvWalk(input, 4)
TlvSize(t) == IF t.type = MESSAGE_PAD1 THEN 1 ELSE 2 + t.len
RECURSIVE TlvBytes(_)
TlvBytes(tlvs) == IF tlvs = <<>> THEN 0 ELSE TlvSize(Head(tlvs)) + TlvBytes(Tail(tlvs))
\* the packet is a header and complete TLVs, nothing else
Complete(input) == Len(input) >= 4 /\ 4 + TlvBytes(Tlvs(input)) = Len(input)
TlvsOfType(input, type) == SelectSeq(Tlvs(input), LAMBDA t : t.type = type)
GetW(v, i) == v[i] * 256 + v[i + 1]
GetL(v, i) == <<GetW(v, i), GetW(v, i + 2)>>
\* the (ts, pc) of the first TS/PC TLV, <<>> when the packet has none
FirstTspc(input) ==
    IF TlvsOfType(input, MESSAGE_TSPC) = <<>> THEN <<>>
    ELSE IF Head(TlvsOfType(input, MESSAGE_TSPC)).len < 6 THEN <<>>
    ELSE <<GetL(Head(TlvsOfType(input, MESSAGE_TSPC)).value, 3),
           GetW(Head(TlvsOfType(input, MESSAGE_TSPC)).value, 1)>>
\* (ts, pc) pairs in lexicographic order
PairGt(a, b) == Gt(a[1], b[1]) \/ (a[1] = b[1] /\ a[2] > b[2])

(***************************************************************************)
(* The state.                                                              *)
(***************************************************************************)
VARIABLES
    clock,              \* what quagga_time (NULL) returns
    ts_base,            \* static unsigned char ts_base
    anm_timeout,        \* static u_int32_t anm_timeout
    anmlist,            \* static struct list *anmlist
    stats,              \* static struct babel_auth_stats stats
    if_stats,           \* babel_ifp->auth_stats of every interface
    auth_timestamp,     \* babel_ifp->auth_timestamp of every interface
    auth_packetcounter, \* babel_ifp->auth_packetcounter of every interface
    aborted,            \* an assertion has failed: the process is gone
    sent,               \* per interface: the (ts, pc) of the TS/PC TLV last appended
    wire,               \* the packet that the last call of make produced
    accepted,           \* history: the packets accepted so far
    last,               \* the operation performed last and what it returned
    nops                \* number of operations performed

vars == <<clock, ts_base, anm_timeout, anmlist, stats, if_stats, auth_timestamp,
          auth_packetcounter, aborted, sent, wire, accepted, last, nops>>

MaxOps == 3

NoLast == [op |-> "none", ifp |-> 0, from |-> <<>>, input |-> <<>>, ret |-> 0,
           verdict |-> "", calls |-> <<>>, done |-> 0, now |-> <<0, 0>>,
           body |-> <<>>, herr |-> {}, csas |-> <<>>, send |-> FALSE, esas |-> <<>>]
NoWire == [ifp |-> 0, bytes |-> <<>>, auth |-> FALSE, body |-> <<>>]

\* babel_auth_init(), and babel_interface structures whose send counters are
\* (ts, pc) on interface 1 and zero elsewhere
InitWith(ts, pc) ==
    /\ clock = T100
    /\ ts_base = BABEL_DEFAULT_TS_BASE
    /\ anm_timeout = BABEL_DEFAULT_ANM_TIMEOUT
    /\ anmlist = <<>>
    /\ stats = NoStats
    /\ if_stats = [i \in Interfaces |-> NoStats]
    /\ auth_timestamp = [i \in Interfaces |-> IF i = 1 THEN ts ELSE <<0, 0>>]
    /\ auth_packetcounter = [i \in Interfaces |-> IF i = 1 THEN pc ELSE 0]
    /\ aborted = FALSE
    /\ sent = [i \in Interfaces |-> <<>>]
    /\ wire = NoWire
    /\ accepted = {}
    /\ last = NoLast
    /\ nops = 0

Init == InitWith(<<0, 0>>, 0)

Running == ~aborted /\ nops < MaxOps

\* the history after a check: an accepted packet is recorded with the (ts, pc)
\* of its first TS/PC TLV; live means that the ANM record has existed since
Accepted(acc, ifp, from, input, verdict) ==
    IF verdict = "ok"
    THEN acc \cup {[from |-> from, ifp |-> ifp, input |-> input,
                    tspc |-> FirstTspc(input), live |-> TRUE]}
    ELSE acc
\* the history after records have been deleted from the ANM
Forgotten(acc, anm) ==
    {[a EXCEPT !.live = @ /\ babel_anm_lookup(anm, a.from, a.ifp) # 0] : a \in acc}

\* a packet arrives: babel_auth_check_packet (ifp, from, input, packetlen)
Check(ifp, from, input, herr, overread) ==
    /\ Running
    /\ \E r \in {babel_auth_check_packet(ifp, from, input, anmlist, clock, herr, overread)} :
           /\ aborted' = r.aborted
           /\ anmlist' = r.anm
           /\ stats' = AddStats(stats, r.inc)
           /\ if_stats' = count_if_stats(if_stats, ifp, r.inc)
           /\ accepted' = Accepted(accepted, ifp, from, input, r.verdict)
           /\ last' = [NoLast EXCEPT !.op = "check", !.ifp = ifp, !.from = from,
                                     !.input = input, !.ret = r.ret,
                                     !.verdict = r.verdict, !.calls = r.calls,
                                     !.done = r.done, !.now = clock, !.herr = herr]
    /\ nops' = nops + 1
    /\ UNCHANGED <<clock, ts_base, anm_timeout, auth_timestamp, auth_packetcounter, sent,
                   wire>>

\* the caller's buffer: the body and room for BABEL_MAXAUTHSPACE more bytes
Buffer(body) == body \o [i \in 1..BABEL_MAXAUTHSPACE |-> 170]

\* a packet is about to be sent: babel_auth_make_packet (ifp, body, body_len)
Make(ifp, body, herr) ==
    /\ Running
    /\ \E r \in {babel_auth_make_packet(ifp, Buffer(body), Len(body), ts_base,
                                        auth_timestamp[ifp], auth_packetcounter[ifp],
                                        clock, herr)} :
           /\ auth_timestamp' = [auth_timestamp EXCEPT ![ifp] = r.ts]
           /\ auth_packetcounter' = [auth_packetcounter EXCEPT ![ifp] = r.pc]
           /\ stats' = AddStats(stats, r.inc)
           /\ if_stats' = count_if_stats(if_stats, ifp, r.inc)
           /\ sent' = [sent EXCEPT ![ifp] =
                         IF r.ret >= Len(body) + 8
                         THEN <<GetL(r.body, Len(body) + 5), GetW(r.body, Len(body) + 3)>>
                         ELSE @]
           /\ wire' = [ifp |-> ifp,
                       bytes |-> Header(SubSeq(r.body, 1, r.ret)) \o SubSeq(r.body, 1, r.ret),
                       auth |-> r.ret > Len(body),
                       body |-> body]
           /\ last' = [NoLast EXCEPT !.op = "make", !.ifp = ifp, !.input = body,
                                     !.ret = r.ret, !.body = r.body, !.now = clock,
                                     !.herr = herr]
    /\ nops' = nops + 1
    /\ UNCHANGED <<clock, anm_timeout, anmlist, aborted, accepted, ts_base>>

\* deletes a record already when its time is up
Expired_early(anm, timeout, now) == ~Gt(Add(anm.last_recv, timeout), now)
\* never deletes the record at the head of the list
babel_auth_do_housekeeping_tail(list, timeout, now) ==
    IF list = <<>> THEN <<>>
    ELSE <<Head(list)>>
         \o SelectSeq(Tail(list), LAMBDA anm : ~Lt(Add(anm.last_recv, timeout), now))
\* the periodic timer: babel_auth_do_housekeeping()
Expired(anm, timeout, now) == Lt(Add(anm.last_recv, timeout), now)
babel_auth_do_housekeeping(list, timeout, now) ==
    SelectSeq(list, LAMBDA anm : ~Expired(anm, timeout, now))
Housekeeping ==
    /\ Running
    /\ anmlist' = babel_auth_do_housekeeping(anmlist, anm_timeout, clock)
    /\ accepted' = Forgotten(accepted, anmlist')
    /\ last' = [NoLast EXCEPT !.op = "sweep", !.now = clock]
    /\ nops' = nops + 1
    /\ UNCHANGED <<clock, ts_base, anm_timeout, stats, if_stats, auth_timestamp,
                   auth_packetcounter, aborted, sent, wire>>

\* "clear babel authentication memory"
clear_babel_authentication_memory(list) == <<>>
ClearMemory ==
    /\ Running
    /\ anmlist' = clear_babel_authentication_memory(anmlist)
    /\ accepted' = Forgotten(accepted, anmlist')
    /\ last' = [NoLast EXCEPT !.op = "clear", !.now = clock]
    /\ nops' = nops + 1
    /\ UNCHANGED <<clock, ts_base, anm_timeout, stats, if_stats, auth_timestamp,
                   auth_packetcounter, aborted, sent, wire>>

\* "anm-timeout <5-4294967295>" and "no anm-timeout"
SetAnmTimeout(t) ==
    /\ Running
    /\ t # anm_timeout
    /\ anm_timeout' = t
    /\ UNCHANGED <<clock, ts_base, anmlist, stats, if_stats, auth_timestamp,
                   auth_packetcounter, aborted, sent, wire, accepted, last, nops>>

\* "ts-base (zero|unixtime)" and "no ts-base"
SetTsBase(b) ==
    /\ Running
    /\ b # ts_base
    /\ ts_base' = b
    /\ UNCHANGED <<clock, anm_timeout, anmlist, stats, if_stats, auth_timestamp,
                   auth_packetcounter, aborted, sent, wire, accepted, last, nops>>

\* the wall clock moves to t
Tick(t) ==
    /\ Running
    /\ t # clock
    /\ clock' = t
    /\ UNCHANGED <<ts_base, anm_timeout, anmlist, stats, if_stats, auth_timestamp,
                   auth_packetcounter, aborted, sent, wire, accepted, last, nops>>

(***************************************************************************)
(* Spec: the receiving side.  Packets of a peer arrive on interfaces 1     *)
(* (authentication required), 2 (permissive) and 3 (no CSA), the           *)
(* housekeeping timer fires, the operator clears the memory or sets the    *)
(* timeout, time passes.                                                   *)
(***************************************************************************)
Times == {T100, T101, T400}
T299 == <<0, 299>>
Timeouts == {BABEL_DEFAULT_ANM_TIMEOUT, T299}

\* every packet of the peer at ADDR1 on the interfaces with CSAs and keys, one
\* of them on the interface without CSAs, a packet of the peer at ADDR2, and
\* packets on the interfaces whose CSAs have no key valid for accept
Arrivals == ({1, 2} \X {ADDR1} \X Packets)
            \cup {<<3, ADDR1, PK_S2>>, <<1, ADDR2, PK_A2>>, <<2, ADDR2, PK_A2>>}
            \cup {<<8, ADDR1, PK_S2>>, <<9, ADDR1, PK_S2>>, <<8, ADDR1, PK_SHORT>>}

Receive == \E a \in Arrivals : Check(a[1], a[2], a[3], {}, FALSE)
Advance == \E t \in Times : Tick(t)
Configure == \E t \in Timeouts : SetAnmTimeout(t)

Next == Receive \/ Housekeeping \/ ClearMemory \/ Advance \/ Configure

Spec == Init /\ [][Next]_vars

(***************************************************************************)
(* Properties of the receiving side.                                       *)
(***************************************************************************)
\* the step is a call of babel_auth_check_packet()
CheckStep == last'.op = "check" /\ nops' = nops + 1
\* the (ts, pc) that the ANM holds for (from, ifp), (0, 0) without a record
StoredPair(anm, from, ifp) ==
    IF babel_anm_lookup(anm, from, ifp) = 0 THEN <<<<0, 0>>, 0>>
    ELSE <<anm[babel_anm_lookup(anm, from, ifp)].last_ts,
           anm[babel_anm_lookup(anm, from, ifp)].last_pc>>
RecordsOf(anm, from, ifp) ==
    {i \in 1..Len(anm) : anm[i].address = from /\ anm[i].ifp = ifp}
\* the step is a check of the packet that the previous operation, a check,
\* has just accepted with MSG_OK, from the same sender on the same interface
ReplayStep ==
    /\ CheckStep
    /\ last.op = "check" /\ last.ret = MSG_OK
    /\ last'.ifp = last.ifp /\ last'.from = last.from /\ last'.input = last.input
ReplayRejected ==
    /\ last'.ret = MSG_NG
    /\ ~aborted'
    /\ stats'.auth_recv_ng_tspc = stats.auth_recv_ng_tspc + 1
    /\ if_stats'[last.ifp].auth_recv_ng_tspc = if_stats[last.ifp].auth_recv_ng_tspc + 1
    /\ anmlist' = anmlist

\* C1 (as amended): on an interface with authrxreq true and at least one CSA,
\* the check of a packet identical to the one that the check before it has
\* just accepted, from the same sender on the same interface, returns NG,
\* adds exactly one to auth_recv_ng_tspc and leaves the ANM as it is.
C1_ReplayRejected ==
    [][(ReplayStep /\ authrxreq(last.ifp) /\ Len(csalist(last.ifp)) > 0)
       => ReplayRejected]_vars
\* C1 as stated: the same for any interface with authrxreq true.
C1_AnyInterface ==
    [][(ReplayStep /\ authrxreq(last.ifp)) => ReplayRejected]_vars
\* a replay has been rejected for its TS/PC: the packet was accepted before
C1_Witness ==
    /\ last.op = "check" /\ last.verdict = "tspc" /\ last.ret = MSG_NG
    /\ authrxreq(last.ifp)
    /\ \E a \in accepted : a.from = last.from /\ a.ifp = last.ifp /\ a.input = last.input
                           /\ a.live

\* C4 as stated: on an interface with authrxreq false every check returns OK,
\* and the counters and the ANM change as they would with authrxreq true.
C4_Permissive ==
    [][(CheckStep /\ ~authrxreq(last'.ifp)) =>
          /\ ~aborted'
          /\ last'.ret = MSG_OK
          /\ anmlist' = check_packet(last'.ifp, TRUE, last'.from, last'.input, anmlist,
                                     clock, last'.herr, FALSE).anm
          /\ stats' = AddStats(stats,
                               check_packet(last'.ifp, TRUE, last'.from, last'.input,
                                            anmlist, clock, last'.herr, FALSE).inc)]_vars

\* C7: a check whose verdict is OK leaves exactly one ANM record for (sender,
\* interface), holding the TS and PC of the packet's first TS/PC TLV and the
\* current time, and adds one to auth_recv_ok; on an interface with CSAs a
\* packet gets as far as the HMAC check exactly when its first TS/PC TLV is
\* lexicographically greater than the stored pair ((0, 0) without a record),
\* so that an equal TS with a greater PC is accepted.
C7_AcceptCommits ==
    [][CheckStep =>
          /\ last'.verdict = "ok" =>
                /\ Cardinality(RecordsOf(anmlist', last'.from, last'.ifp)) = 1
                /\ \A i \in RecordsOf(anmlist', last'.from, last'.ifp) :
                      /\ <<anmlist'[i].last_ts, anmlist'[i].last_pc>> = FirstTspc(last'.input)
                      /\ anmlist'[i].last_recv = clock
                /\ stats'.auth_recv_ok = stats.auth_recv_ok + 1
                /\ if_stats'[last'.ifp].auth_recv_ok = if_stats[last'.ifp].auth_recv_ok + 1
                /\ last'.ret = MSG_OK
          /\ (Len(csalist(last'.ifp)) > 0 /\ FirstTspc(last'.input) # <<>>) =>
                (last'.verdict \in {"ok", "hmac", "abort"}
                    <=> PairGt(FirstTspc(last'.input),
                               StoredPair(anmlist, last'.from, last'.ifp)))
          /\ last'.verdict # "ok" => anmlist' = anmlist]_vars
\* a packet with the TS of an earlier accepted one and a greater PC is accepted
C7_Witness ==
    /\ last.op = "check" /\ last.verdict = "ok"
    /\ StoredPair(anmlist, last.from, last.ifp) = FirstTspc(last.input)
    /\ \E a \in accepted : /\ a.from = last.from /\ a.ifp = last.ifp /\ a.live
                           /\ a.tspc[1] = FirstTspc(last.input)[1]
                           /\ a.tspc[2] < FirstTspc(last.input)[2]

\* C8 (as amended): the (ts, pc) of an accepted packet is strictly greater
\* than that of every packet accepted earlier from the same sender on the
\* same interface since the ANM record of that sender was last created, that
\* is, with no sweep or clear-memory deleting the record in between.
C8_StrictOrder ==
    [][(CheckStep /\ last'.verdict = "ok") =>
          \A a \in accepted :
              (a.from = last'.from /\ a.ifp = last'.ifp /\ a.live)
                  => PairGt(FirstTspc(last'.input), a.tspc)]_vars
\* C8 as stated: the same over any sequence of operations, sweeps and
\* clear-memory included.
C8_AnySequence ==
    [][(CheckStep /\ last'.verdict = "ok") =>
          \A a \in accepted :
              (a.from = last'.from /\ a.ifp = last'.ifp)
                  => PairGt(FirstTspc(last'.input), a.tspc)]_vars
\* two different packets of one sender have been accepted on one interface
C8_Witness ==
    /\ last.op = "check" /\ last.verdict = "ok"
    /\ \E a \in accepted : /\ a.from = last.from /\ a.ifp = last.ifp /\ a.live
                           /\ a.input # last.input
                           /\ PairGt(FirstTspc(last.input), a.tspc)

\* C9: while an ANM record exists, its (last_ts, last_pc) never decreases,
\* and whenever the record is updated the pair strictly increases.
C9_RecordMonotonic ==
    [][\A i \in 1..Len(anmlist) : \A j \in 1..Len(anmlist') :
          (anmlist'[j].address = anmlist[i].address /\ anmlist'[j].ifp = anmlist[i].ifp)
              => \/ anmlist'[j] = anmlist[i]
                 \/ PairGt(<<anmlist'[j].last_ts, anmlist'[j].last_pc>>,
                           <<anmlist[i].last_ts, anmlist[i].last_pc>>)]_vars
\* a record has been updated: it holds more than a packet accepted earlier
C9_Witness ==
    \E i \in 1..Len(anmlist) : \E a \in accepted :
        /\ a.from = anmlist[i].address /\ a.ifp = anmlist[i].ifp /\ a.live
        /\ PairGt(<<anmlist[i].last_ts, anmlist[i].last_pc>>, a.tspc)

\* C10: a sweep at time t deletes exactly the records with
\* last_recv + anm_timeout < t; a record with last_recv + anm_timeout = t is
\* kept, and the records kept are unchanged and in their order.
C10_Sweep ==
    [][(last'.op = "sweep" /\ nops' = nops + 1) =>
          /\ \A i \in 1..Len(anmlist) :
                (\E j \in 1..Len(anmlist') : anmlist'[j] = anmlist[i])
                    <=> ~Lt(Add(anmlist[i].last_recv, anm_timeout), clock)
          /\ \A j \in 1..Len(anmlist') : \E i \in 1..Len(anmlist) : anmlist'[j] = anmlist[i]
          /\ Len(anmlist') <= Len(anmlist)]_vars
\* a sweep has kept a record whose time was just up, after a deletion
C10_Witness ==
    /\ last.op = "sweep"
    /\ \E i \in 1..Len(anmlist) : Add(anmlist[i].last_recv, anm_timeout) = clock
    /\ \E a \in accepted : ~a.live

(***************************************************************************)
(* SpecWork: the work of the inbound checker.  Packets with several HMAC   *)
(* TLVs arrive on interfaces 1 and 2, whose accept list has four ESAs,     *)
(* and hash_make_hmac() may report an error.                               *)
(***************************************************************************)
ReceiveWork ==
    \E ifp \in {1, 2} : \E input \in WorkPackets : \E herr \in HerrSets :
        Check(ifp, ADDR1, input, herr, FALSE)

NextWork == ReceiveWork \/ ClearMemory

SpecWork == Init /\ [][NextWork]_vars

AcceptEsas(ifp) == babel_esalist_derive(csalist(ifp), <<0, 0>>, FALSE)
SendEsas(ifp) == babel_esalist_derive(csalist(ifp), <<0, 0>>, TRUE)
NoDuplicates(seq) == \A i \in 1..Len(seq) : \A j \in 1..Len(seq) : seq[i] = seq[j] => i = j
Min(a, b) == IF a < b THEN a ELSE b

\* the HMAC TLV t has the key id and the length that go with the ESA
TlvFits(t, esa) ==
    /\ t.type = MESSAGE_HMAC
    /\ t.len = 2 + hash_digest_length(esa.hash_algo)
    /\ GetW(t.value, 1) = esa.key_id
\* the packet with the digest of every HMAC TLV replaced by the address of
\* the sender and zeros
RECURSIVE PaddedTlvs(_, _)
PaddedTlvs(tlvs, addr) ==
    IF tlvs = <<>> THEN <<>>
    ELSE (IF Head(tlvs).type = MESSAGE_PAD1 THEN <<MESSAGE_PAD1>>
          ELSE IF Head(tlvs).type = MESSAGE_HMAC
          THEN <<MESSAGE_HMAC, Head(tlvs).len>> \o SubSeq(Head(tlvs).value, 1, 2)
               \o addr \o Zeros(Head(tlvs).len - 2 - IPV6_MAX_BYTELEN)
          ELSE <<Head(tlvs).type, Head(tlvs).len>> \o Head(tlvs).value)
         \o PaddedTlvs(Tail(tlvs), addr)
PaddedImage(input, addr) == SubSeq(input, 1, 4) \o PaddedTlvs(Tlvs(input), addr)
\* the digest that the HMAC TLV t would need for the ESA
RightDigest(t, esa, input, addr) ==
    SubSeq(t.value, 3, t.len) = hash_make_hmac(esa.hash_algo, PaddedImage(input, addr),
                                               esa.key_secret)
\* the indices of the ESAs that some HMAC TLV of the packet fits
FittedEsas(input, esalist) ==
    {i \in 1..Len(esalist) :
        \E k \in 1..Len(TlvsOfType(input, MESSAGE_HMAC)) :
            TlvFits(TlvsOfType(input, MESSAGE_HMAC)[k], esalist[i])}
\* BABEL_MAXDIGESTSIN + 1 HMAC TLVs, each fitting some ESA, all digests wrong
Stuffed(input, addr, esalist) ==
    /\ Complete(input)
    /\ Len(TlvsOfType(input, MESSAGE_HMAC)) = BABEL_MAXDIGESTSIN + 1
    /\ \A k \in 1..Len(TlvsOfType(input, MESSAGE_HMAC)) :
          /\ \E i \in 1..Len(esalist) :
                TlvFits(TlvsOfType(input, MESSAGE_HMAC)[k], esalist[i])
          /\ \A i \in 1..Len(esalist) :
                TlvFits(TlvsOfType(input, MESSAGE_HMAC)[k], esalist[i])
                    => ~RightDigest(TlvsOfType(input, MESSAGE_HMAC)[k], esalist[i],
                                    input, addr)
\* the last operation was the check of such a packet that passed the TS/PC check
StuffedCheck ==
    /\ last.op = "check"
    /\ last.verdict \in {"hmac", "ok", "abort"}
    /\ Stuffed(last.input, last.from, AcceptEsas(last.ifp))

\* C5 as stated: a check invokes the digest primitive at most
\* BABEL_MAXDIGESTSIN times and at most once for each ESA of the accept list.
C5_BoundedWork ==
    last.op = "check" =>
        /\ Len(last.calls) <= BABEL_MAXDIGESTSIN
        /\ Len(last.calls) <= Len(AcceptEsas(last.ifp))
        /\ NoDuplicates(last.calls)

U32_MAX == <<65535, 65535>>
T2P32 == <<65536, 5>>
SendTimes == {T100, T101, T2P32}
SendStarts == {<<0, 0>>, U32_MAX} \X {0, UINT16_MAX - 1}
BODY1 == <<4, 1, 0>>

InitSend == \E c \in SendStarts : InitWith(c[1], c[2])
\* on interface 1 the first or the second invocation of hash_make_hmac() may fail
Sends == {<<1, {}>>, <<1, {1}>>, <<1, {2}>>, <<5, {}>>, <<6, {}>>}
Send == \E a \in Sends : Make(a[1], BODY1, a[2])
AdvanceSend == \E t \in SendTimes : Tick(t)
Rebase == \E b \in {BABEL_TS_BASE_ZERO, BABEL_TS_BASE_UNIX} : SetTsBase(b)

NextSend == Send \/ AdvanceSend \/ Rebase

SpecSend == InitSend /\ [][NextSend]_vars

\* the step is a call of babel_auth_make_packet() that appends a TS/PC TLV,
\* on an interface where an earlier call has appended one
ResendStep ==
    /\ last'.op = "make" /\ nops' = nops + 1
    /\ last'.ret >= Len(last'.input) + 8
    /\ sent[last'.ifp] # <<>>
\* the send counters of the interface are where the last TS/PC TLV left them
\* or beyond, and the call will not make them wrap: they are not at their
\* greatest value, and the clock fits the 32 bits of the timestamp
NoWrap(ifp) ==
    /\ ~PairGt(sent[ifp], <<auth_timestamp[ifp], auth_packetcounter[ifp]>>)
    /\ ~(auth_timestamp[ifp] = U32_MAX /\ auth_packetcounter[ifp] = UINT16_MAX)
    /\ Lt(clock, <<65536, 0>>)

\* C2 (as amended): on one interface, whatever the clock and ts-base do, the
\* (ts, pc) encoded in an appended TS/PC TLV is strictly greater than the one
\* encoded by the previous call that appended one, as long as the counters
\* have not wrapped around in between: the timestamp does not pass 2^32 - 1
\* and the clock stays below 2^32.
C2_SendMonotonic ==
    [][(ResendStep /\ NoWrap(last'.ifp))
       => PairGt(sent'[last'.ifp], sent[last'.ifp])]_vars
\* C2 as stated: the same for any sequence of calls and clock values.
C2_AnySequence ==
    [][ResendStep => PairGt(sent'[last'.ifp], sent[last'.ifp])]_vars
\* two TS/PC TLVs have been appended on interface 1, the first with the
\* timestamp taken from the clock, the second after ts-base was set to zero
C2_Witness ==
    /\ last.op = "make" /\ last.ifp = 1 /\ last.ret >= Len(last.input) + 8
    /\ if_stats[1].auth_sent = 2
    /\ ts_base = BABEL_TS_BASE_ZERO
    /\ sent[1] = <<T100, 1>>

(***************************************************************************)
(* SpecRT: the round trip.  A packet is made on interface 1 (keychain      *)
(* kcA), 3 (no CSAs), 4 (keychain kcB, whose first two send keys are not   *)
(* valid for accept) or 7 (keychain kcA with two algorithms), and          *)
(* delivered to interface 1, 2, 3 or 4 as a packet from the link-local     *)
(* address of the sending interface; a packet that an earlier incarnation  *)
(* of the sender made may arrive before it.                                *)
(***************************************************************************)
\* a body that holds a TS/PC TLV, and one that holds an HMAC TLV
BODY_TSPC == TlvTspc(0, <<0, 0>>) \o <<4, 1, 0>>
BODY_HMAC == TlvHmac(7, Zeros(32))
Bodies == {BODY1, BODY_TSPC, BODY_HMAC}

MakeRT == \E ifp \in {1, 3, 4, 7} : \E body \in Bodies : \E herr \in {{}, {1}} :
              Make(ifp, body, herr)
Deliver ==
    /\ wire # NoWire
    /\ \E ifp \in {1, 2, 3, 4} : \E herr \in {{}, {1, 2}} :
           Check(ifp, lladdr(wire.ifp), wire.bytes, herr, FALSE)
Earlier == Check(1, ADDR1, PK_TS, {}, FALSE)

NextRT == MakeRT \/ Deliver \/ Earlier

SpecRT == Init /\ [][NextRT]_vars

\* the step delivers the packet that make has authenticated to an interface
\* with the CSAs (keychain and hash algorithm) of the sending interface
DeliverStep ==
    /\ CheckStep
    /\ wire.auth
    /\ last'.input = wire.bytes /\ last'.from = lladdr(wire.ifp)
    /\ csalist(last'.ifp) = csalist(wire.ifp)
\* some key of the sending interface is valid for send and for accept
SharedKey(ifp) ==
    \E i \in 1..Len(SendEsas(ifp)) : \E j \in 1..Len(AcceptEsas(ifp)) :
        /\ SendEsas(ifp)[i].key_id = AcceptEsas(ifp)[j].key_id
        /\ SendEsas(ifp)[i].key_secret = AcceptEsas(ifp)[j].key_secret
        /\ SendEsas(ifp)[i].hash_algo = AcceptEsas(ifp)[j].hash_algo
\* the ESAs that got an HMAC TLV: the first BABEL_MAXDIGESTSOUT of the send list
UsedEsas(ifp) ==
    {SendEsas(ifp)[i] : i \in 1..Min(BABEL_MAXDIGESTSOUT, Len(SendEsas(ifp)))}
SameEsa(a, b) ==
    a.key_id = b.key_id /\ a.key_secret = b.key_secret /\ a.hash_algo = b.hash_algo
Fits(a, b) ==
    a.key_id = b.key_id
    /\ hash_digest_length(a.hash_algo) = hash_digest_length(b.hash_algo)
\* the receiver gets to an ESA that the sender used before it has spent
\* BABEL_MAXDIGESTSIN computations on other ESAs that fit an HMAC TLV
Reached(from_ifp, to_ifp) ==
    \E j \in 1..Len(AcceptEsas(to_ifp)) :
        /\ \E u \in UsedEsas(from_ifp) : SameEsa(u, AcceptEsas(to_ifp)[j])
        /\ Cardinality({i \in 1..(j - 1) :
                           \E u \in UsedEsas(from_ifp) : Fits(u, AcceptEsas(to_ifp)[i])})
               < BABEL_MAXDIGESTSIN
\* the body is complete TLVs, none of them a TS/PC or an HMAC TLV
PlainBody(body) ==
    /\ Complete(Header(body) \o body)
    /\ TlvsOfType(Header(body) \o body, MESSAGE_TSPC) = <<>>
    /\ TlvsOfType(Header(body) \o body, MESSAGE_HMAC) = <<>>
RoundTripOk ==
    /\ last'.verdict = "ok"
    /\ stats'.auth_recv_ok = stats.auth_recv_ok + 1
    /\ if_stats'[last'.ifp].auth_recv_ok = if_stats[last'.ifp].auth_recv_ok + 1

\* C3 (as amended): the packet that make has authenticated is accepted by an
\* interface with the same keychain and hash algorithm provided that the
\* body is complete TLVs without a TS/PC or HMAC TLV, the ANM of the
\* receiver holds no pair for (A, I') that is equal to or greater than the
\* pair of the packet, one of the first BABEL_MAXDIGESTSOUT send ESAs is an
\* accept ESA that the receiver gets to within BABEL_MAXDIGESTSIN
\* computations, and no HMAC computation of the receiver reports an error.
C3_RoundTrip ==
    [][(/\ DeliverStep
        /\ PlainBody(wire.body)
        /\ PairGt(sent[wire.ifp], StoredPair(anmlist, last'.from, last'.ifp))
        /\ Reached(wire.ifp, last'.ifp)
        /\ last'.herr = {})
       => RoundTripOk]_vars
\* C3 as stated: accepted whenever the sending interface has a key valid
\* for send and for accept, whatever the ANM holds and however many ESAs
\* there are.
C3_NoPrecondition ==
    [][(DeliverStep /\ SharedKey(wire.ifp)) => RoundTripOk]_vars
\* a packet made on interface 1 has been accepted on interface 2
C3_Witness ==
    /\ last.op = "check" /\ last.verdict = "ok"
    /\ wire.auth /\ wire.ifp = 1
    /\ last.input = wire.bytes /\ last.ifp = 2 /\ last.from = lladdr(1)
    /\ StoredPair(anmlist, last.from, 2) = sent[1]

(***************************************************************************)
(* Properties of the checker for packets that are not as they should be.   *)
(***************************************************************************)
\* C11 as stated: on an interface with CSAs the check of any received byte
\* sequence ends returning OK or NG, and the assertion that ends the padder
\* holds, also for an HMAC TLV whose length is below 18.
C11_NoAbort ==
    (last.op = "check" /\ Len(csalist(last.ifp)) > 0) =>
        /\ ~aborted
        /\ last.verdict # "abort"
        /\ last.ret \in {MSG_OK, MSG_NG}

\* C12: on an interface with CSAs the check of a packet that has no TS/PC
\* TLV among its TLVs adds one to auth_recv_ng_no_tspc and to nothing else,
\* returns NG with authrxreq true and OK otherwise, invokes the digest
\* primitive not at all and leaves the ANM as it is.
C12_MissingTspc ==
    [][(/\ CheckStep
        /\ Len(csalist(last'.ifp)) > 0
        /\ TlvsOfType(last'.input, MESSAGE_TSPC) = <<>>)
       => /\ ~aborted'
          /\ last'.verdict = "no_tspc"
          /\ last'.ret = IF authrxreq(last'.ifp) THEN MSG_NG ELSE MSG_OK
          /\ stats' = Bump(stats, "auth_recv_ng_no_tspc", 1)
          /\ if_stats' = [if_stats EXCEPT ![last'.ifp] = Bump(@, "auth_recv_ng_no_tspc", 1)]
          /\ last'.calls = <<>>
          /\ anmlist' = anmlist]_vars
\* a packet without a TS/PC TLV whose HMAC TLV holds the right digest has
\* been rejected on an interface that requires authentication
C12_Witness ==
    /\ last.op = "check" /\ last.verdict = "no_tspc" /\ last.ret = MSG_NG
    /\ authrxreq(last.ifp)
    /\ TlvsOfType(last.input, MESSAGE_TSPC) = <<>>
    /\ \E k \in 1..Len(TlvsOfType(last.input, MESSAGE_HMAC)) :
          \E i \in 1..Len(AcceptEsas(last.ifp)) :
              /\ TlvFits(TlvsOfType(last.input, MESSAGE_HMAC)[k], AcceptEsas(last.ifp)[i])
              /\ RightDigest(TlvsOfType(last.input, MESSAGE_HMAC)[k],
                             AcceptEsas(last.ifp)[i], last.input, last.from)

\* the (ts, pc) that a TS/PC TLV holds
TspcPair(t) == <<GetL(t.value, 3), GetW(t.value, 1)>>

\* C13: for a packet with several TS/PC TLVs, on an interface with CSAs, the
\* check fails for its TS/PC exactly when the pair of the first TS/PC TLV is
\* not greater than the stored pair, whatever the later TS/PC TLVs hold, and
\* an accepted packet leaves the pair of the first TS/PC TLV in the ANM.
C13_FirstTspcOnly ==
    [][(/\ CheckStep
        /\ Len(csalist(last'.ifp)) > 0
        /\ Len(TlvsOfType(last'.input, MESSAGE_TSPC)) >= 2)
       => /\ last'.verdict \in {"tspc", "hmac", "ok"}
          /\ last'.verdict = "tspc"
                <=> ~PairGt(TspcPair(TlvsOfType(last'.input, MESSAGE_TSPC)[1]),
                            StoredPair(anmlist, last'.from, last'.ifp))
          /\ last'.verdict = "ok"
                => StoredPair(anmlist', last'.from, last'.ifp)
                      = TspcPair(TlvsOfType(last'.input, MESSAGE_TSPC)[1])
          /\ last'.verdict # "ok" => anmlist' = anmlist]_vars
\* a packet has been rejected for its TS/PC although its second TS/PC TLV
\* holds a pair greater than the stored one
C13_Witness ==
    /\ last.op = "check" /\ last.verdict = "tspc"
    /\ Len(TlvsOfType(last.input, MESSAGE_TSPC)) >= 2
    /\ PairGt(TspcPair(TlvsOfType(last.input, MESSAGE_TSPC)[2]),
              StoredPair(anmlist, last.from, last.ifp))


(* Properties of the sending side when it cannot authenticate. *)
\* the step is a call of babel_auth_make_packet()
MakeStep == last'.op = "make" /\ nops' = nops + 1
\* one of the invocations of hash_make_hmac() that the call makes fails
HashFails(ifp, herr) ==
    herr \cap (1..Min(Len(SendEsas(ifp)), BABEL_MAXDIGESTSOUT)) # {}

\* C14: when babel_auth_make_packet() on an interface with CSAs finds no
\* link-local address, or any of its HMAC computations fails, internal_err is
\* incremented and auth_sent is not, in both statistics records, the original
\* body_len is returned, and the caller's buffer, the BABEL_MAXAUTHSPACE
\* bytes after the body included, is as it was.
C14_SendErrorAtomic ==
    [][(/\ MakeStep
        /\ Len(csalist(last'.ifp)) > 0
        /\ \/ lladdr(last'.ifp) = NoAddr
           \/ HashFails(last'.ifp, last'.herr))
       => /\ stats'.internal_err = stats.internal_err + 1
          /\ stats'.auth_sent = stats.auth_sent
          /\ if_stats'[last'.ifp].internal_err = if_stats[last'.ifp].internal_err + 1
          /\ if_stats'[last'.ifp].auth_sent = if_stats[last'.ifp].auth_sent
          /\ last'.ret = Len(last'.input)
          /\ last'.body = Buffer(last'.input)]_vars
\* a call on interface 1 whose second HMAC computation failed, after the
\* first digest had been written into the working copy
C14_Witness ==
    /\ last.op = "make" /\ last.ifp = 1 /\ last.herr = {2}
    /\ Len(SendEsas(1)) >= 2
    /\ if_stats[1].internal_err >= 1
    /\ last.ret = Len(last.input)


\* C15 as stated: when an HMAC computation reports an error during a check,
\* internal_err is incremented, the verdict is NG (returned as NG where
\* authentication is required) and the ANM is as it was.
C15_ReceiveErrorNG ==
    [][(/\ CheckStep
        /\ \E k \in 1..Len(last'.calls) : k \in last'.herr)
       => /\ stats'.internal_err > stats.internal_err
          /\ if_stats'[last'.ifp].internal_err > if_stats[last'.ifp].internal_err
          /\ last'.verdict # "ok"
          /\ authrxreq(last'.ifp) => last'.ret = MSG_NG
          /\ anmlist' = anmlist]_vars


\* no key of the keychains that the CSAs of the interface name is valid for send
NoSendKey(ifp) ==
    \A i \in 1..Len(csalist(ifp)) :
        \A k \in 1..Len(keychain_lookup(csalist(ifp)[i].keychain_name).key) :
            ~keychain_lookup(csalist(ifp)[i].keychain_name).key[k].send

\* C16 (as amended): when the interface has a CSA and a link-local address
\* and no key valid for send, babel_auth_make_packet() increments
\* auth_sent_ng_nokeys by one in both statistics records and the packet
\* proceeds without any HMAC TLV: the body is as it was, the TS/PC TLV with
\* the advanced send counters is appended alone, and body_len + 8 is returned.
C16_NoKeysTspcOnly ==
    [][(/\ MakeStep
        /\ Len(csalist(last'.ifp)) > 0
        /\ lladdr(last'.ifp) # NoAddr
        /\ NoSendKey(last'.ifp))
       => /\ stats'.auth_sent_ng_nokeys = stats.auth_sent_ng_nokeys + 1
          /\ if_stats'[last'.ifp].auth_sent_ng_nokeys
                = if_stats[last'.ifp].auth_sent_ng_nokeys + 1
          /\ last'.ret = Len(last'.input) + 8
          /\ last'.body
                = Replace(Buffer(last'.input), Len(last'.input),
                          TlvTspc(auth_packetcounter'[last'.ifp],
                                  auth_timestamp'[last'.ifp]))]_vars
\* C16 as stated: with a CSA and an empty send-filtered ESA list,
\* auth_sent_ng_nokeys is incremented and the original body_len is returned
\* with no authentication TLV appended.
C16_NothingAppended ==
    [][(/\ MakeStep
        /\ Len(csalist(last'.ifp)) > 0
        /\ SendEsas(last'.ifp) = <<>>)
       => /\ stats'.auth_sent_ng_nokeys = stats.auth_sent_ng_nokeys + 1
          /\ last'.ret = Len(last'.input)
          /\ last'.body = Buffer(last'.input)]_vars
\* a packet has been made on interface 5, whose only key is not valid for send
C16_Witness ==
    /\ last.op = "make" /\ last.ifp = 5
    /\ NoSendKey(5) /\ Len(csalist(5)) > 0
    /\ if_stats[5].auth_sent_ng_nokeys >= 1
    /\ last.ret = Len(last.input) + 8


\* C17: on an interface whose CSA list is empty, babel_auth_make_packet()
\* returns body_len, leaves the caller's buffer and the send counters as they
\* were and increments plain_sent only; babel_auth_check_packet() returns OK,
\* leaves the ANM as it was and increments plain_recv only.
C17_PassThrough ==
    [][(/\ nops' = nops + 1
        /\ last'.op \in {"make", "check"}
        /\ Len(csalist(last'.ifp)) = 0)
       => IF last'.op = "make"
          THEN /\ last'.ret = Len(last'.input)
               /\ last'.body = Buffer(last'.input)
               /\ auth_timestamp' = auth_timestamp
               /\ auth_packetcounter' = auth_packetcounter
               /\ anmlist' = anmlist
               /\ stats' = Bump(stats, "plain_sent", 1)
               /\ if_stats' = [if_stats EXCEPT ![last'.ifp] = Bump(@, "plain_sent", 1)]
          ELSE /\ last'.ret = MSG_OK
               /\ ~aborted'
               /\ anmlist' = anmlist
               /\ auth_timestamp' = auth_timestamp
               /\ auth_packetcounter' = auth_packetcounter
               /\ stats' = Bump(stats, "plain_recv", 1)
               /\ if_stats' = [if_stats EXCEPT ![last'.ifp] = Bump(@, "plain_recv", 1)]]_vars
\* with a record in the ANM, a packet has been made on interface 3, which has
\* no CSAs, and then checked there
C17_Witness ==
    /\ last.op = "check" /\ last.ifp = 3 /\ Len(csalist(3)) = 0
    /\ wire # NoWire /\ wire.ifp = 3 /\ last.input = wire.bytes
    /\ anmlist # <<>>
    /\ if_stats[3].plain_sent = 1 /\ if_stats[3].plain_recv = 1
    /\ last.ret = MSG_OK


\* the ESAs that get an HMAC TLV each, and the bytes that these TLVs take
SentEsas(ifp) == SubSeq(SendEsas(ifp), 1, Min(Len(SendEsas(ifp)), BABEL_MAXDIGESTSOUT))
RECURSIVE HmacBytes(_)
HmacBytes(esas) ==
    IF esas = <<>> THEN 0
    ELSE 4 + hash_digest_length(Head(esas).hash_algo) + HmacBytes(Tail(esas))
\* the TLVs that the call has appended to the body
Appended(l) == TlvWalk(SubSeq(l.body, 1, l.ret), Len(l.input))
\* the call succeeds: CSAs, a link-local address and no failing computation
MakeSucceeds(ifp, herr) ==
    /\ Len(csalist(ifp)) > 0
    /\ lladdr(ifp) # NoAddr
    /\ ~HashFails(ifp, herr)

\* C18: a successful babel_auth_make_packet() leaves the first body_len bytes
\* of the buffer as they were and appends one TS/PC TLV that holds the send
\* counters as the call has advanced them, then min(|ESAs|,
\* BABEL_MAXDIGESTSOUT) HMAC TLVs, the i-th with the key id and the digest
\* length of the i-th ESA of the sorted list, and nothing else; it returns
\* body_len + 8 + the sum of 4 + digest length over these ESAs.
C18_WireFormat ==
    [][(MakeStep /\ MakeSucceeds(last'.ifp, last'.herr))
       => /\ SubSeq(last'.body, 1, Len(last'.input)) = last'.input
          /\ last'.ret = Len(last'.input) + 8 + HmacBytes(SentEsas(last'.ifp))
          /\ Len(Appended(last')) = 1 + Len(SentEsas(last'.ifp))
          /\ TlvBytes(Appended(last')) = last'.ret - Len(last'.input)
          /\ Appended(last')[1]
                = [type |-> MESSAGE_TSPC, len |-> 6,
                   value |-> PutW(auth_packetcounter'[last'.ifp])
                             \o PutL(auth_timestamp'[last'.ifp])]
          /\ <<auth_timestamp'[last'.ifp], auth_packetcounter'[last'.ifp]>>
                # <<auth_timestamp[last'.ifp], auth_packetcounter[last'.ifp]>>
          /\ \A i \in 1..Len(SentEsas(last'.ifp)) :
                /\ Appended(last')[1 + i].type = MESSAGE_HMAC
                /\ Appended(last')[1 + i].len
                      = 2 + hash_digest_length(SentEsas(last'.ifp)[i].hash_algo)
                /\ GetW(Appended(last')[1 + i].value, 1)
                      = SentEsas(last'.ifp)[i].key_id]_vars
\* a packet has been made on interface 7, which has more send ESAs than
\* BABEL_MAXDIGESTSOUT, of two algorithms: the HMAC TLVs differ in length
C18_Witness ==
    /\ last.op = "make" /\ last.ifp = 7 /\ MakeSucceeds(7, last.herr)
    /\ Len(SendEsas(7)) > BABEL_MAXDIGESTSOUT
    /\ Len(Appended(last)) = 1 + BABEL_MAXDIGESTSOUT
    /\ Appended(last)[2].len # Appended(last)[3].len
    /\ last.ret > Len(last.input) + 8


(***************************************************************************)
(* SpecPure: the two functions that the checker and the builder share,     *)
(* each applied on its own, any number of times: they change nothing of    *)
(* the program's state.  babel_esalist_derive() gets every list of at most *)
(* MaxCsas CSAs over the keychains kcA, kcD and kcF, a keychain that does  *)
(* not exist and both algorithms, with either filter;                      *)
(* babel_auth_pad_packet() gets the packets of the peers and a packet with *)
(* PAD1, an unknown TLV and HMAC TLVs of three lengths, with either        *)
(* address.                                                                *)
(***************************************************************************)
MaxCsas == 2
CsaSet == {Csa(n, a) : n \in {"kcA", "kcD", "kcF", "none"},
                       a \in {HASH_HMAC_SHA1, HASH_HMAC_SHA256}}
CsaLists == UNION {[1..n -> CsaSet] : n \in 0..MaxCsas}

\* PAD1, TS/PC, PAD1, an unknown TLV, HMAC TLVs with 16, 20 and 32 digest bytes
PK_PADS == Framed(<<MESSAGE_PAD1>> \o TlvTspc(1, T100) \o <<MESSAGE_PAD1, 4, 1, 0>>,
                  TlvHmac(1, [i \in 1..16 |-> i]) \o TlvHmac(2, [i \in 1..20 |-> 100 + i])
                  \o TlvHmac(3, [i \in 1..32 |-> 200 + i]))
PadPackets == Packets \cup {PK_PADS, PK_TWO, PK_A2}

\* babel_esalist_derive (csalist, now, keychain_filter_func)
Derive(csas, send) ==
    /\ Running
    /\ last' = [NoLast EXCEPT !.op = "derive", !.csas = csas, !.send = send,
                              !.now = clock,
                              !.esas = babel_esalist_derive(csas, clock, send)]
    /\ UNCHANGED <<clock, ts_base, anm_timeout, anmlist, stats, if_stats, auth_timestamp,
                   auth_packetcounter, aborted, sent, wire, accepted, nops>>

\* babel_auth_pad_packet (packet, addr6)
Pad(input, addr6) ==
    /\ Running
    /\ \E r \in {babel_auth_pad_packet(stream_of(input), addr6)} :
           /\ aborted' = ~PadAssertion(r)
           /\ last' = [NoLast EXCEPT !.op = "pad", !.input = input, !.from = addr6,
                                     !.body = SubSeq(r.padded.data, 1, r.padded.endp)]
    /\ UNCHANGED <<clock, ts_base, anm_timeout, anmlist, stats, if_stats, auth_timestamp,
                   auth_packetcounter, sent, wire, accepted, nops>>

DeriveAny == \E csas \in CsaLists : \E send \in BOOLEAN : Derive(csas, send)
PadAny == \E input \in PadPackets : \E addr6 \in {ADDR1, ADDR2} : Pad(input, addr6)

NextPure == DeriveAny \/ PadAny

SpecPure == Init /\ [][NextPure]_vars

\* what makes two ESAs duplicates of each other
EsaTriple(esa) == <<esa.hash_algo, esa.key_id, esa.key_secret>>
\* the keys of the keychain that the filter of the direction lets through
ValidKeys(name, send) ==
    IF name \in KeychainNames
    THEN {Keychains[name][k] :
             k \in {j \in 1..Len(Keychains[name]) :
                        IF send THEN Keychains[name][j].send
                        ELSE Keychains[name][j].accept}}
    ELSE {}
\* the (hash_algo, key_id, key_bytes) that the CSAs give with these keys
KeyTriples(csas, send) ==
    UNION {{<<csas[i].hash_algo, key.index % (UINT16_MAX + 1), key.string>> :
               key \in ValidKeys(csas[i].keychain_name, send)} : i \in 1..Len(csas)}

\* C19: the list that babel_esalist_derive() returns holds no two ESAs with
\* equal (hash_algo, key_id, key_bytes), key_id being the key index modulo
\* 2^16, and it holds every such triple that the CSAs give with the keys
\* that pass the filter: ESAs that differ in a component are all kept.
C19_NoDuplicateEsa ==
    last.op = "derive" =>
        /\ \A i \in 1..Len(last.esas) : \A j \in 1..Len(last.esas) :
              EsaTriple(last.esas[i]) = EsaTriple(last.esas[j]) => i = j
        /\ {EsaTriple(last.esas[i]) : i \in 1..Len(last.esas)}
              = KeyTriples(last.csas, last.send)
\* a list has been derived from two CSAs of one algorithm whose keychains
\* hold a duplicate (indices 1 and 65537, same string), which is left out,
\* keys with one key id and two strings and keys with one string and two ids
C19_Witness ==
    /\ last.op = "derive" /\ Len(last.csas) = 2
    /\ last.csas[1].hash_algo = last.csas[2].hash_algo
    /\ Len(last.esas) = 5
    /\ Cardinality(ValidKeys(last.csas[1].keychain_name, last.send)) = 4
    /\ Cardinality(ValidKeys(last.csas[2].keychain_name, last.send)) = 2
    /\ \E i \in 1..5 : \E j \in 1..5 :
          /\ last.esas[i].key_id = last.esas[j].key_id
          /\ last.esas[i].key_secret # last.esas[j].key_secret
    /\ \E i \in 1..5 : \E j \in 1..5 :
          /\ last.esas[i].key_id # last.esas[j].key_id
          /\ last.esas[i].key_secret = last.esas[j].key_secret

\* a header, complete TLVs and nothing else, the HMAC TLVs with room for the
\* key id and an address
WellFormed(input) ==
    /\ Complete(input)
    /\ \A k \in 1..Len(TlvsOfType(input, MESSAGE_HMAC)) :
          TlvsOfType(input, MESSAGE_HMAC)[k].len >= 2 + IPV6_MAX_BYTELEN
\* the bytes that babel_auth_pad_packet() returns for the bytes and the address
Padded(bytes, addr6) ==
    SubSeq(babel_auth_pad_packet(stream_of(bytes), addr6).padded.data, 1,
           babel_auth_pad_packet(stream_of(bytes), addr6).padded.endp)

\* C20: for a well-formed packet P and an address A the padder's assertion
\* holds and pad(P, A) is as long as P and equal to P but for the digest
\* bytes of the HMAC TLVs, which are the 16 bytes of A followed by zeros;
\* padding the result again with A gives the same bytes.
C20_PaddingEquivalence ==
    (last.op = "pad" /\ WellFormed(last.input)) =>
        /\ ~aborted
        /\ Len(last.body) = Len(last.input)
        /\ last.body = PaddedImage(last.input, last.from)
        /\ Padded(last.body, last.from) = last.body
\* a packet with PAD1, an unknown TLV and HMAC TLVs of three lengths has been
\* padded, and the result differs from the packet
C20_Witness ==
    /\ last.op = "pad" /\ WellFormed(last.input)
    /\ TlvsOfType(last.input, MESSAGE_PAD1) # <<>>
    /\ Len(TlvsOfType(last.input, MESSAGE_HMAC)) = 3
    /\ TlvsOfType(last.input, MESSAGE_HMAC)[1].len = 2 + IPV6_MAX_BYTELEN
    /\ last.body # last.input
    /\ Len(last.body) = Len(last.input)


(* Properties of the statistics, of the order of the ESAs and of the send   *)
(* counters.                                                                *)
\* the sum of the counter over the interfaces 1..i
RECURSIVE SumOver(_, _, _)
SumOver(ifs, name, i) == IF i = 0 THEN 0 ELSE ifs[i][name] + SumOver(ifs, name, i - 1)

KeyList(csa, send) ==
    IF csa.keychain_name \in KeychainNames
    THEN SelectSeq(Keychains[csa.keychain_name],
                   LAMBDA key : IF send THEN key.send ELSE key.accept)
    ELSE <<>>
\* what the k-th of these keys of the c-th CSA would be as an ESA
KeyTriple(csas, send, c, k) ==
    <<csas[c].hash_algo, KeyList(csas[c], send)[k].index % (UINT16_MAX + 1),
      KeyList(csas[c], send)[k].string>>
\* the places (c, k) of the keys of the CSAs
KeyPlaces(csas, send) ==
    {p \in (1..Len(csas)) \X (1..4) : p[2] <= Len(KeyList(csas[p[1]], send))}
\* the key at p is no duplicate of a key considered before it
Kept(csas, send, p) ==
    \A q \in KeyPlaces(csas, send) :
        (q[1] < p[1] \/ (q[1] = p[1] /\ q[2] < p[2]))
            => KeyTriple(csas, send, q[1], q[2]) # KeyTriple(csas, send, p[1], p[2])
\* the position of the key at p among the keys of its CSA: among all of them
\* (all = TRUE) or among those that are no duplicates
KeyPosition(csas, send, p, all) ==
    IF all THEN p[2] - 1
    ELSE Cardinality({k \in 1..(p[2] - 1) : Kept(csas, send, <<p[1], k>>)})
\* the place of the key that the ESA was derived from
Origin(csas, send, esa) ==
    CHOOSE p \in KeyPlaces(csas, send) :
        Kept(csas, send, p) /\ KeyTriple(csas, send, p[1], p[2]) = EsaTriple(esa)
\* the ESAs are in the order of the positions of their keys, then of their CSAs
EsaOrdered(esas, csas, send, all) ==
    \A a \in 1..Len(esas) : \A b \in 1..Len(esas) :
        a < b =>
            \/ KeyPosition(csas, send, Origin(csas, send, esas[a]), all)
                  < KeyPosition(csas, send, Origin(csas, send, esas[b]), all)
            \/ /\ KeyPosition(csas, send, Origin(csas, send, esas[a]), all)
                     = KeyPosition(csas, send, Origin(csas, send, esas[b]), all)
               /\ Origin(csas, send, esas[a])[1] < Origin(csas, send, esas[b])[1]

Advances(ifp) == Len(csalist(ifp)) > 0 /\ lladdr(ifp) # NoAddr
\* the counters of the interface after the step are (ts, pc)
CountersAre(ifp, ts, pc) == auth_timestamp'[ifp] = ts /\ auth_packetcounter'[ifp] = pc
\* the step increments the counters of the interface by one
Incremented(ifp) ==
    IF auth_packetcounter[ifp] < UINT16_MAX
    THEN CountersAre(ifp, auth_timestamp[ifp], auth_packetcounter[ifp] + 1)
    ELSE CountersAre(ifp, U32Inc(auth_timestamp[ifp]), 0)

\* C23 (as amended): one advance of the send counters at the time now yields
\* (now mod 2^32, 0) when ts_base is UNIX and now > auth_timestamp, and in
\* every other case (ts, pc + 1) when pc < 65535 and ((ts + 1) mod 2^32, 0)
\* when pc = 65535: the increment is never skipped.
C23_StepRule ==
    [][(MakeStep /\ Advances(last'.ifp))
       => IF ts_base = BABEL_TS_BASE_UNIX /\ Gt(clock, auth_timestamp[last'.ifp])
          THEN CountersAre(last'.ifp, ToU32(clock), 0)
          ELSE Incremented(last'.ifp)]_vars
\* C23 as stated: the same with (now, 0) for the UNIX base and
\* now > auth_timestamp.
C23_TimestampIsNow ==
    [][(MakeStep /\ Advances(last'.ifp))
       => IF ts_base = BABEL_TS_BASE_UNIX /\ Gt(clock, auth_timestamp[last'.ifp])
          THEN CountersAre(last'.ifp, clock, 0)
          ELSE Incremented(last'.ifp)]_vars
\* with the UNIX base and the clock behind the timestamp, a call has taken
\* the packet counter of interface 1 to its greatest value
C23_Witness ==
    /\ last.op = "make" /\ last.ifp = 1 /\ Advances(1)
    /\ ts_base = BABEL_TS_BASE_UNIX
    /\ Lt(clock, auth_timestamp[1])
    /\ auth_packetcounter[1] = UINT16_MAX


(* Properties of the work cap and of the authentic neighbors memory.        *)
\* the packet holds an HMAC TLV that fits the ESA and has the digest for it
RightFor(input, addr, esa) ==
    \E k \in 1..Len(TlvsOfType(input, MESSAGE_HMAC)) :
        /\ TlvFits(TlvsOfType(input, MESSAGE_HMAC)[k], esa)
        /\ RightDigest(TlvsOfType(input, MESSAGE_HMAC)[k], esa, input, addr)
\* a digest that the check l has computed is the one of an HMAC TLV
Matched(l) ==
    \E k \in (1..Len(l.calls)) \ l.herr : RightFor(l.input, l.from, l.calls[k])
\* the indices of the ESAs with such a TLV that fewer than BABEL_MAXDIGESTSIN
\* ESAs fitted by some HMAC TLV precede
WithinCap(input, addr, esalist) ==
    {i \in 1..Len(esalist) :
        /\ RightFor(input, addr, esalist[i])
        /\ Cardinality({j \in FittedEsas(input, esalist) : j < i}) < BABEL_MAXDIGESTSIN}

\* C24: a check that gets as far as the ESA list computes digests only for
\* ESAs that an HMAC TLV of the packet fits, so that a right HMAC TLV for an
\* ESA with fewer than BABEL_MAXDIGESTSIN fitted ESAs before it is found
\* (here with a primitive that reports no error); and once
\* BABEL_MAXDIGESTSIN digests have been computed nothing more is computed,
\* and if none of the digests computed is that of a fitting HMAC TLV the
\* verdict is NG, counted under auth_recv_ng_hmac, and the ANM is as it was.
C24_CapDecides ==
    [][(CheckStep /\ last'.verdict \in {"hmac", "ok"})
       => /\ last'.done <= BABEL_MAXDIGESTSIN
          /\ last'.done = BABEL_MAXDIGESTSIN => Len(last'.calls) \notin last'.herr
          /\ \A k \in 1..Len(last'.calls) :
                \E i \in FittedEsas(last'.input, AcceptEsas(last'.ifp)) :
                    AcceptEsas(last'.ifp)[i] = last'.calls[k]
          /\ (last'.done = BABEL_MAXDIGESTSIN /\ ~Matched(last'))
                => /\ last'.verdict = "hmac"
                   /\ last'.ret = IF authrxreq(last'.ifp) THEN MSG_NG ELSE MSG_OK
                   /\ stats'.auth_recv_ng_hmac = stats.auth_recv_ng_hmac + 1
                   /\ anmlist' = anmlist
          /\ (last'.herr = {}
              /\ WithinCap(last'.input, last'.from, AcceptEsas(last'.ifp)) # {})
                => last'.verdict = "ok"]_vars
\* a packet has been rejected after BABEL_MAXDIGESTSIN digests although it
\* holds the right HMAC TLV for an ESA that comes later in the list
C24_Witness ==
    /\ last.op = "check" /\ last.verdict = "hmac" /\ last.herr = {}
    /\ last.done = BABEL_MAXDIGESTSIN /\ Len(last.calls) = BABEL_MAXDIGESTSIN
    /\ \E i \in 1..Len(AcceptEsas(last.ifp)) :
          /\ i > BABEL_MAXDIGESTSIN
          /\ RightFor(last.input, last.from, AcceptEsas(last.ifp)[i])
          /\ \A k \in 1..Len(last.calls) : last.calls[k] # AcceptEsas(last.ifp)[i]
    /\ if_stats[last.ifp].auth_recv_ng_hmac >= 1


\* the packet passes the TS/PC check of the interface
PassesTspc(anm, from, ifp, input) ==
    /\ FirstTspc(input) # <<>>
    /\ PairGt(FirstTspc(input), StoredPair(anm, from, ifp))

\* C25 as stated: on an interface with CSAs none of whose keys is valid for
\* accept, the check of a packet that passes the TS/PC check invokes the
\* digest primitive not at all, adds one to auth_recv_ng_nokeys and one to
\* auth_recv_ng_hmac, in the global record and in that of the interface,
\* has the verdict NG and leaves the ANM as it is.
C25_NoKeys ==
    [][(/\ CheckStep
        /\ Len(csalist(last'.ifp)) > 0
        /\ AcceptEsas(last'.ifp) = <<>>
        /\ PassesTspc(anmlist, last'.from, last'.ifp, last'.input))
       => /\ ~aborted'
          /\ last'.calls = <<>>
          /\ stats' = Bump(Bump(stats, "auth_recv_ng_nokeys", 1), "auth_recv_ng_hmac", 1)
          /\ if_stats' = [if_stats EXCEPT ![last'.ifp] =
                             Bump(Bump(@, "auth_recv_ng_nokeys", 1), "auth_recv_ng_hmac", 1)]
          /\ last'.verdict = "hmac"
          /\ last'.ret = IF authrxreq(last'.ifp) THEN MSG_NG ELSE MSG_OK
          /\ anmlist' = anmlist]_vars


(***************************************************************************)
(* SpecRestart: a neighbour restarts.  The packet PK_TS of the peer at     *)
(* ADDR1, with (ts, pc) = (101, 0), has been accepted on interface 1 at    *)
(* the time 100; the peer then restarts with the TS base "zero" and sends  *)
(* packets with smaller pairs, the housekeeping timer fires, the operator  *)
(* sets the timeout, time passes.  Operations are counted from the         *)
(* restart.                                                                *)
(***************************************************************************)
T401 == <<0, 401>>
RestartTimes == {T101, T400, T401}
RestartArrivals == ({1} \X {ADDR1} \X {PK_RESTART, PK_S2, PK_TS, PK_BAD})
                   \cup {<<2, ADDR1, PK_RESTART>>}

InitRestart ==
    \E r \in {babel_auth_check_packet(1, ADDR1, PK_TS, <<>>, T100, {}, FALSE)} :
        /\ clock = T100
        /\ ts_base = BABEL_DEFAULT_TS_BASE
        /\ anm_timeout = BABEL_DEFAULT_ANM_TIMEOUT
        /\ anmlist = r.anm
        /\ stats = AddStats(NoStats, r.inc)
        /\ if_stats = count_if_stats([i \in Interfaces |-> NoStats], 1, r.inc)
        /\ auth_timestamp = [i \in Interfaces |-> <<0, 0>>]
        /\ auth_packetcounter = [i \in Interfaces |-> 0]
        /\ aborted = r.aborted
        /\ sent = [i \in Interfaces |-> <<>>]
        /\ wire = NoWire
        /\ accepted = Accepted({}, 1, ADDR1, PK_TS, r.verdict)
        /\ last = [NoLast EXCEPT !.op = "check", !.ifp = 1, !.from = ADDR1,
                                 !.input = PK_TS, !.ret = r.ret, !.verdict = r.verdict,
                                 !.calls = r.calls, !.done = r.done, !.now = T100]
        /\ nops = 0

ReceiveRestart == \E a \in RestartArrivals : Check(a[1], a[2], a[3], {}, FALSE)
AdvanceRestart == \E t \in RestartTimes : Tick(t)

NextRestart == ReceiveRestart \/ Housekeeping \/ AdvanceRestart \/ Configure

SpecRestart == InitRestart /\ [][NextRestart]_vars

\* the step is a run of babel_auth_do_housekeeping()
SweepStep == last'.op = "sweep" /\ nops' = nops + 1
\* the packet is one that a peer with a key of the interface has made: it is a
\* sequence of whole TLVs with a TS/PC TLV above (0, 0) and the right HMAC TLV
\* for an ESA that the work cap lets the check reach
Authentic(ifp, from, input) ==
    /\ Complete(input)
    /\ FirstTspc(input) # <<>>
    /\ PairGt(FirstTspc(input), <<<<0, 0>>, 0>>)
    /\ WithinCap(input, from, AcceptEsas(ifp)) # {}

\* C26: while the ANM holds a record for the peer, a packet of the peer whose
\* (ts, pc) is not above the pair of the record is rejected for its TS/PC and
\* leaves the ANM, last_recv included, as it is; a sweep at a time greater
\* than last_recv + anm_timeout leaves no record for the peer; and with no
\* record for the peer, an authentic packet of the peer with (ts, pc) above
\* (0, 0) is accepted and its pair stored.  A locked-out peer is therefore
\* accepted again after the first sweep later than anm_timeout after the
\* packet accepted last.
C26_Recovery ==
    [][/\ (/\ CheckStep
           /\ Len(csalist(last'.ifp)) > 0
           /\ RecordsOf(anmlist, last'.from, last'.ifp) # {}
           /\ FirstTspc(last'.input) # <<>>
           /\ ~PairGt(FirstTspc(last'.input), StoredPair(anmlist, last'.from, last'.ifp)))
          => /\ last'.verdict = "tspc"
             /\ last'.ret = IF authrxreq(last'.ifp) THEN MSG_NG ELSE MSG_OK
             /\ anmlist' = anmlist
       /\ SweepStep
          => \A i \in 1..Len(anmlist) :
                Gt(clock, Add(anmlist[i].last_recv, anm_timeout))
                    => RecordsOf(anmlist', anmlist[i].address, anmlist[i].ifp) = {}
       /\ (/\ CheckStep
           /\ Len(csalist(last'.ifp)) > 0
           /\ RecordsOf(anmlist, last'.from, last'.ifp) = {}
           /\ Authentic(last'.ifp, last'.from, last'.input))
          => /\ last'.verdict = "ok"
             /\ last'.ret = MSG_OK
             /\ StoredPair(anmlist', last'.from, last'.ifp) = FirstTspc(last'.input)
             /\ \A i \in RecordsOf(anmlist', last'.from, last'.ifp) :
                   anmlist'[i].last_recv = clock]_vars
\* the restarted peer has been rejected, its record has been swept, and its
\* packet with a pair below that of the packet accepted before the restart
\* has been accepted
C26_Witness ==
    /\ last.op = "check" /\ last.verdict = "ok" /\ last.input = PK_RESTART
    /\ authrxreq(last.ifp)
    /\ if_stats[last.ifp].auth_recv_ng_tspc >= 1
    /\ \E a \in accepted :
          /\ a.from = last.from /\ a.ifp = last.ifp /\ ~a.live
          /\ PairGt(a.tspc, FirstTspc(last.input))
    /\ Gt(clock, Add(T100, anm_timeout))


\* the record is the one for (from, ifp)
KeyIs(rec, from, ifp) == rec.address = from /\ rec.ifp = ifp

\* C27: a check of a packet from the address A on the interface I leaves
\* every record of the ANM for another address, or for A on another
\* interface, as it is and where it is; the only record that it writes or
\* adds is the one for (A, I), and it does so only with the verdict OK: a
\* check with another verdict, whatever it returns, leaves the whole ANM,
\* last_recv included, as it is.
C27_CheckFrame ==
    [][CheckStep
       => /\ Len(anmlist') \in {Len(anmlist), Len(anmlist) + 1}
          /\ \A i \in 1..Len(anmlist) :
                \/ anmlist'[i] = anmlist[i]
                \/ /\ KeyIs(anmlist[i], last'.from, last'.ifp)
                   /\ KeyIs(anmlist'[i], last'.from, last'.ifp)
          /\ Len(anmlist') > Len(anmlist)
                => KeyIs(anmlist'[Len(anmlist')], last'.from, last'.ifp)
          /\ anmlist' # anmlist => last'.verdict = "ok" /\ last'.ret = MSG_OK
          /\ last'.verdict # "ok" => anmlist' = anmlist]_vars
\* the record of a sender has been updated while the ANM holds a record for
\* the same address on another interface or for another address
C27_Witness ==
    /\ last.op = "check" /\ last.verdict = "ok"
    /\ \E a \in accepted : /\ a.from = last.from /\ a.ifp = last.ifp /\ a.live
                           /\ a.input # last.input
    /\ \E i \in 1..Len(anmlist) : ~KeyIs(anmlist[i], last.from, last.ifp)


\* C28: whatever checks, sweeps and clear-memory commands have run, the ANM
\* holds at most one record for a pair of peer address and interface.
C28_UniqueKeys ==
    \A i \in 1..Len(anmlist) : \A j \in 1..Len(anmlist) :
        (anmlist[i].address = anmlist[j].address /\ anmlist[i].ifp = anmlist[j].ifp)
            => i = j
\* the ANM holds two records, one of them for a sender accepted again, or
\* accepted anew after its record had been deleted
C28_Witness ==
    /\ Len(anmlist) >= 2
    /\ \E i \in 1..Len(anmlist) :
          Cardinality({a \in accepted : a.from = anmlist[i].address
                                        /\ a.ifp = anmlist[i].ifp}) >= 2


\* the counters of which a check increments one, and those that tell a
\* verdict OK
OutcomeNames == {"plain_recv", "auth_recv_ng_no_tspc", "auth_recv_ng_tspc",
                 "auth_recv_ng_hmac", "auth_recv_ok"}
OkNames == {"plain_recv", "auth_recv_ok"}
\* the counters of the record after that the step has incremented
Incremented29(before, after) == {n \in StatNames : after[n] # before[n]}

\* C29 as stated: every check increments exactly one of plain_recv,
\* auth_recv_ng_no_tspc, auth_recv_ng_tspc, auth_recv_ng_hmac and
\* auth_recv_ok, by exactly one; its verdict is OK exactly when that counter
\* is plain_recv or auth_recv_ok; and the only other counters that it may
\* increment are auth_recv_ng_nokeys and internal_err, and these only
\* together with auth_recv_ng_hmac.
C29_OneOutcome ==
    [][CheckStep
       => /\ \A n \in StatNames : stats'[n] >= stats[n]
          /\ Cardinality(Incremented29(stats, stats') \cap OutcomeNames) = 1
          /\ \A n \in OutcomeNames : stats'[n] \in {stats[n], stats[n] + 1}
          /\ last'.verdict \in {"plain", "ok"}
                <=> Incremented29(stats, stats') \cap OkNames # {}
          /\ Incremented29(stats, stats') \ OutcomeNames
                \subseteq {"auth_recv_ng_nokeys", "internal_err"}
          /\ Incremented29(stats, stats') \ OutcomeNames # {}
                => "auth_recv_ng_hmac" \in Incremented29(stats, stats')]_vars

====
